---- MODULE Spec2Model ----
(***************************************************************************)
(* Signal scoring engine of MyButler: the indicator analyzers, the         *)
(* per-asset aggregators (TechnicalService, FundamentalService) and the    *)
(* batch scanner (ScreeningService).                                       *)
(*                                                                         *)
(* A price series (pandas DataFrame) is represented by its length, by      *)
(* whether its columns are well formed, and by the quantities the          *)
(* analyzers read off its latest bars (comparisons of price and lines,     *)
(* band-width percentile, volume ratio, ...).  Ratios are scaled to        *)
(* integers: volume ratio and %B in tenths, percentages in whole points.   *)
(* A fundamental record carries its yearly histories as sequences.         *)
(***************************************************************************)
EXTENDS Integers, Sequences, FiniteSets, TLC

VARIABLES
    op,            \* the entry point that ran last ("init" before any)
    filters,       \* requested filter names (the filters list)
    combine_mode,  \* "any" | "all"
    min_score,     \* caller's minimum score
    perfect_only,  \* perfect-only mode
    limit,         \* tier size limit of run_screening
    market,        \* "US" | "KR" | "ALL"
    us_stocks,     \* filtered US universe: sequence of stock records
    kr_stocks,     \* filtered KR universe: sequence of stock records
    raised,        \* TRUE when an exception escaped the entry point
    signals,       \* returned list (ranked StockSignals / batch signals)
    strong_buy,    \* top tier of the ScreeningResponse
    buy,           \* mid tier
    weak_buy,      \* low tier
    series,        \* the price series handed to a single analyzer
    fdata,         \* the fundamental record handed to a single analyzer
    analyzer,      \* the analyzer that ran last on series / fdata
    result,        \* that analyzer's return value
    screening_results, \* the rows of the screening_results table
    screening_date     \* the screening date of the last save ("none" before any)

vars == <<op, filters, combine_mode, min_score, perfect_only, limit, market,
          us_stocks, kr_stocks, raised, signals, strong_buy, buy, weak_buy,
          series, fdata, analyzer, result, screening_results, screening_date>>

\* Python's None; every signal object carries present |-> TRUE.
None == [present |-> FALSE]

Max(a, b) == IF a >= b THEN a ELSE b
Min(a, b) == IF a <= b THEN a ELSE b
Abs(a) == IF a >= 0 THEN a ELSE -a

RECURSIVE SumSeq(_)
SumSeq(s) == IF s = <<>> THEN 0 ELSE Head(s) + SumSeq(Tail(s))

\* the last k elements of s (s[-k:])
LastN(s, k) == IF Len(s) <= k THEN s ELSE SubSeq(s, Len(s) - k + 1, Len(s))

(***************************************************************************)
(* Trend-cloud analyzer (IchimokuService)                                  *)
(***************************************************************************)
TENKAN_PERIOD == 9
KIJUN_PERIOD == 26
SENKOU_B_PERIOD == 52
DISPLACEMENT == 26

Ichimoku_calculate_score_unclamped(price_above_cloud, tenkan_above_kijun, chikou_above_price, cloud_bullish, cloud_breakout, golden_cross, in_cloud) ==
    (IF price_above_cloud THEN 30 ELSE IF in_cloud THEN 10 ELSE -20)
    + (IF tenkan_above_kijun THEN 20 ELSE -10)
    + (IF chikou_above_price THEN 20 ELSE -10)
    + (IF cloud_bullish THEN 10 ELSE -5)
    + (IF cloud_breakout THEN 15 ELSE 0)
    + (IF golden_cross THEN 10 ELSE 0)

\* in_cloud stands for current_price > cloud_bottom
Ichimoku_calculate_score(price_above_cloud, tenkan_above_kijun, chikou_above_price, cloud_bullish, cloud_breakout, golden_cross, in_cloud) ==
    LET score ==
          (IF price_above_cloud THEN 30 ELSE IF in_cloud THEN 10 ELSE -20)
          + (IF tenkan_above_kijun THEN 20 ELSE -10)
          + (IF chikou_above_price THEN 20 ELSE -10)
          + (IF cloud_bullish THEN 10 ELSE -5)
          + (IF cloud_breakout THEN 15 ELSE 0)
          + (IF golden_cross THEN 10 ELSE 0)
    IN Max(-100, Min(100, score))

determine_signal_strength(score) ==
    IF score >= 80 THEN "STRONG_BUY"
    ELSE IF score >= 50 THEN "BUY"
    ELSE IF score >= 20 THEN "WEAK_BUY"
    ELSE IF score >= -20 THEN "NEUTRAL"
    ELSE IF score >= -50 THEN "WEAK_SELL"
    ELSE IF score >= -80 THEN "SELL"
    ELSE "STRONG_SELL"

\* calculate_ichimoku: which lines are defined (not NaN) on the latest bar.
\* rolling(w) is defined from bar w on, and only over windows without a NaN
\* (df.gap: a non-numeric High or Low among the latest 9 bars); shift(26)
\* delays that by 26 bars.
tenkan_defined(df) == df.len >= TENKAN_PERIOD /\ ~df.gap
kijun_defined(df) == df.len >= KIJUN_PERIOD /\ ~df.gap
senkou_a_defined(df) == df.len >= KIJUN_PERIOD + DISPLACEMENT
senkou_b_defined(df) == df.len >= SENKOU_B_PERIOD + DISPLACEMENT

LOOKBACK == 5

\* a breakout scan that looks at the latest bar only
detect_cloud_breakout_latest(df) ==
    ~df.cloud_before[LOOKBACK] /\ df.pos = "above"

\* _detect_cloud_breakout(df, lookback=5): on one of the latest 5 bars Close
\* is above cloud_top and was not on the bar before.  df.cloud_before tells,
\* oldest first, whether Close > cloud_top held on the 5 bars before the
\* latest one.
detect_cloud_breakout(df) ==
    IF df.len < LOOKBACK + 1 THEN FALSE
    ELSE LET above == df.cloud_before \o <<df.pos = "above">>
         IN \E i \in 1..LOOKBACK : ~above[i] /\ above[i + 1]

\* _detect_golden_cross(df, lookback=5): the same scan on tenkan_sen >
\* kijun_sen, df.cross_before holding the 5 bars before the latest one
detect_golden_cross(df) ==
    IF df.len < LOOKBACK + 1 THEN FALSE
    ELSE LET above == df.cross_before \o <<df.tak>>
         IN \E i \in 1..LOOKBACK : ~above[i] /\ above[i + 1]

Ichimoku_enough_rows_no_margin(df) == df.len >= SENKOU_B_PERIOD + DISPLACEMENT

\* the minimum-data test of analyze_signal
Ichimoku_enough_rows(df) == df.len >= SENKOU_B_PERIOD + DISPLACEMENT + 5

Ichimoku_analyze_signal(df) ==
    IF ~df.ok THEN None                      \* KeyError inside the try block
    ELSE IF ~Ichimoku_enough_rows(df) THEN None
    ELSE IF ~tenkan_defined(df) \/ ~kijun_defined(df) THEN None
    ELSE IF ~senkou_a_defined(df) \/ ~senkou_b_defined(df) THEN None
    ELSE
      LET price_above_cloud == df.pos = "above"
          score == Ichimoku_calculate_score(price_above_cloud, df.tak, df.cap,
                       df.bull, detect_cloud_breakout(df), detect_golden_cross(df),
                       df.pos = "inside")
      IN [present |-> TRUE,
          score |-> score,
          signal_strength |-> determine_signal_strength(score),
          price_above_cloud |-> price_above_cloud,
          tenkan_above_kijun |-> df.tak,
          chikou_above_price |-> df.cap,
          cloud_bullish |-> df.bull,
          cloud_breakout |-> detect_cloud_breakout(df),
          golden_cross |-> detect_golden_cross(df)]

(***************************************************************************)
(* Technical analyzers (BaseAnalyzer and its three subclasses)             *)
(***************************************************************************)
has_sufficient_data_lax(df, min_data_length) == df.len >= 1

has_sufficient_data(df, min_data_length) == df.len >= min_data_length

BB_PERIOD == 20
SQUEEZE_PERCENTILE == 20
STRONG_SQUEEZE_PERCENTILE == 10
VOLUME_SURGE_RATIO == 20          \* 2.0, in tenths
STRONG_VOLUME_SURGE_RATIO == 30   \* 3.0, in tenths
BREAKOUT_ATTEMPT_PERCENT_B == 8   \* 0.8, in tenths
Bollinger_min_data_length == 60
Bollinger_tail == 60
Bollinger_min_samples == 30

\* a score whose two squeeze tiers and two volume tiers add up
Bollinger_calculate_score_stacked(is_squeeze, is_strong_squeeze, volume_surge, strong_volume_surge, band_breakout_attempt) ==
    Min(80, (IF is_strong_squeeze THEN 35 ELSE 0) + (IF is_squeeze THEN 25 ELSE 0)
            + (IF strong_volume_surge THEN 30 ELSE 0) + (IF volume_surge THEN 20 ELSE 0)
            + (IF band_breakout_attempt THEN 15 ELSE 0))

Bollinger_calculate_score(is_squeeze, is_strong_squeeze, volume_surge, strong_volume_surge, band_breakout_attempt) ==
    LET score ==
          (IF is_strong_squeeze THEN 35 ELSE IF is_squeeze THEN 25 ELSE 0)
          + (IF strong_volume_surge THEN 30 ELSE IF volume_surge THEN 20 ELSE 0)
          + (IF band_breakout_attempt THEN 15 ELSE 0)
    IN Min(score, 80)

\* number of non-NaN band-width values among the last 60 bars
recent_bandwidths(df) ==
    Max(0, Min(Bollinger_tail, df.len - (BB_PERIOD - 1)))

Bollinger_analyze(df) ==
    IF ~has_sufficient_data(df, Bollinger_min_data_length) THEN None
    ELSE IF ~df.ok THEN None                 \* exception inside the try block
    ELSE IF df.len < BB_PERIOD THEN None     \* bb_middle is NaN
    ELSE IF recent_bandwidths(df) < Bollinger_min_samples THEN None
    ELSE
      LET is_strong_squeeze == df.pct <= STRONG_SQUEEZE_PERCENTILE
          is_squeeze == df.pct <= SQUEEZE_PERCENTILE
          strong_volume_surge == df.vol >= STRONG_VOLUME_SURGE_RATIO
          volume_surge == df.vol >= VOLUME_SURGE_RATIO
          band_breakout_attempt == df.pb >= BREAKOUT_ATTEMPT_PERCENT_B
      IN [present |-> TRUE,
          is_squeeze |-> is_squeeze,
          is_strong_squeeze |-> is_strong_squeeze,
          volume_surge |-> volume_surge,
          strong_volume_surge |-> strong_volume_surge,
          band_breakout_attempt |-> band_breakout_attempt,
          score |-> Bollinger_calculate_score(is_squeeze, is_strong_squeeze,
                        volume_surge, strong_volume_surge, band_breakout_attempt)]

\* rolling(window=w).sum() at bar i (1-based): seq[i - w + 1] + ... + seq[i]
RECURSIVE rolling_sum(_, _, _)
rolling_sum(seq, i, w) ==
    IF w = 0 THEN 0
    ELSE IF w = 1 THEN seq[i]
    ELSE rolling_sum(seq, i, w \div 2) + rolling_sum(seq, i - w \div 2, w - w \div 2)

\* BB_PERIOD * (BB_PERIOD - 1) times the square of bb_std at bar i
spread(closes, i) ==
    BB_PERIOD * rolling_sum([k \in 1..Len(closes) |-> closes[k] * closes[k]], i, BB_PERIOD)
    - rolling_sum(closes, i, BB_PERIOD) * rolling_sum(closes, i, BB_PERIOD)

\* bandwidth at bar i < bandwidth at bar c, bandwidth being
\* (bb_upper - bb_lower) / bb_middle * 100 = 4 * bb_std / bb_middle * 100
narrower(closes, i, c) ==
    spread(closes, i) * rolling_sum(closes, c, BB_PERIOD) * rolling_sum(closes, c, BB_PERIOD)
    < spread(closes, c) * rolling_sum(closes, i, BB_PERIOD) * rolling_sum(closes, i, BB_PERIOD)

\* calculate_bollinger_bands and what analyze reads off its last row:
\* pct = bandwidth_percentile over the defined bandwidths of the last 60 bars,
\* vol = 10 * volume_ratio, pb = percent_b as far as the score looks at it:
\* 5 for a NaN read as 0.5, 8 for >= 0.8 (close - bb_middle >= 1.2 * bb_std),
\* 0 below
bollinger_reading(bars) ==
    LET n == bars.len
        recent == Max(BB_PERIOD, n - Bollinger_tail + 1)..n
        d == BB_PERIOD * bars.closes[n] - rolling_sum(bars.closes, n, BB_PERIOD)
    IN [bars EXCEPT
          !.pct = (100 * Cardinality({i \in recent : narrower(bars.closes, i, n)}))
                  \div Cardinality(recent),
          !.vol = (10 * BB_PERIOD * bars.volumes[n])
                  \div rolling_sum(bars.volumes, n, BB_PERIOD),
          !.pb = IF spread(bars.closes, n) = 0 THEN 5
                 ELSE IF d >= 0 /\ 95 * d * d >= 144 * spread(bars.closes, n) THEN 8
                 ELSE 0]

\* BollingerAnalyzer.analyze on concrete bars
Bollinger_analyze_bars(bars) ==
    IF ~has_sufficient_data(bars, Bollinger_min_data_length) THEN None
    ELSE Bollinger_analyze(bollinger_reading(bars))

SMA_120 == 120
DISPARITY_OPTIMAL_MIN == 5
DISPARITY_OPTIMAL_MAX == 15
DISPARITY_OVERHEATED == 15
MAAlignment_min_data_length == 130

MAAlignment_calculate_score(is_perfect_alignment, is_partial_alignment, golden_cross_5_20, golden_cross_20_60, golden_cross_60_120, disparity_optimal, disparity_overheated) ==
    LET score ==
          (IF is_perfect_alignment THEN 40 ELSE IF is_partial_alignment THEN 25 ELSE 0)
          + (IF golden_cross_5_20 THEN 10 ELSE 0)
          + (IF golden_cross_20_60 THEN 15 ELSE 0)
          + (IF golden_cross_60_120 THEN 20 ELSE 0)
          + (IF disparity_overheated THEN -20 ELSE IF disparity_optimal THEN 10 ELSE 0)
    IN Max(-100, Min(score, 95))

MAAlignment_analyze(df) ==
    IF ~has_sufficient_data(df, MAAlignment_min_data_length) THEN None
    ELSE IF ~df.ok THEN None
    ELSE IF df.len < SMA_120 THEN None       \* sma_120 is NaN
    ELSE
      LET is_perfect_alignment == df.align = 4
          is_partial_alignment == df.align >= 3
          disparity_optimal == DISPARITY_OPTIMAL_MIN <= df.disp /\ df.disp <= DISPARITY_OPTIMAL_MAX
          disparity_overheated == df.disp > DISPARITY_OVERHEATED
      IN [present |-> TRUE,
          is_perfect_alignment |-> is_perfect_alignment,
          is_partial_alignment |-> is_partial_alignment,
          alignment_count |-> df.align,
          golden_cross_5_20 |-> df.gc5,
          golden_cross_20_60 |-> df.gc20,
          golden_cross_60_120 |-> df.gc60,
          disparity_optimal |-> disparity_optimal,
          disparity_overheated |-> disparity_overheated,
          score |-> MAAlignment_calculate_score(is_perfect_alignment, is_partial_alignment,
                        df.gc5, df.gc20, df.gc60, disparity_optimal, disparity_overheated)]

SMA_5 == 5
SMA_20 == 20
SMA_60 == 60
GC_LOOKBACK == 5

\* rolling(window=fast).mean() > rolling(window=slow).mean() at bar i, both
\* defined (Close itself is the mean of window 1)
sma_above(closes, i, fast, slow) ==
    /\ i >= slow
    /\ slow * rolling_sum(closes, i, fast) > fast * rolling_sum(closes, i, slow)

\* a cross scan that wants the fast average strictly below on the bar before
MA_detect_golden_cross_strict(closes, fast, slow) ==
    \E i \in (Len(closes) - GC_LOOKBACK + 1)..Len(closes) :
        /\ i - 1 >= slow
        /\ fast * rolling_sum(closes, i - 1, slow) > slow * rolling_sum(closes, i - 1, fast)
        /\ sma_above(closes, i, fast, slow)

\* MAAlignmentAnalyzer._detect_golden_cross: on one of the latest 5 bars the
\* fast average is above the slow one and was not on the bar before, both
\* averages being defined on both bars
MA_detect_golden_cross(closes, fast, slow) ==
    IF Len(closes) < GC_LOOKBACK + 1 THEN FALSE
    ELSE \E i \in (Len(closes) - GC_LOOKBACK + 1)..Len(closes) :
             /\ i - 1 >= slow
             /\ ~sma_above(closes, i - 1, fast, slow)
             /\ sma_above(closes, i, fast, slow)

\* calculate_moving_averages and what analyze reads off its last row:
\* align = alignment_count, the three crosses, and disp = disparity as far as
\* the score looks at it: 16 for > 15%, 5 for 5% .. 15%, 0 below
ma_reading(bars) ==
    LET n == bars.len
        c == bars.closes
        gap == SMA_20 * c[n] - rolling_sum(c, n, SMA_20)    \* disparity * sum / 100
        sum == rolling_sum(c, n, SMA_20)
    IN [bars EXCEPT
          !.align = Cardinality({w \in {<<1, SMA_5>>, <<SMA_5, SMA_20>>,
                                        <<SMA_20, SMA_60>>, <<SMA_60, SMA_120>>} :
                                    sma_above(c, n, w[1], w[2])}),
          !.gc5 = MA_detect_golden_cross(c, SMA_5, SMA_20),
          !.gc20 = MA_detect_golden_cross(c, SMA_20, SMA_60),
          !.gc60 = MA_detect_golden_cross(c, SMA_60, SMA_120),
          !.disp = IF 100 * gap > DISPARITY_OVERHEATED * sum THEN DISPARITY_OVERHEATED + 1
                   ELSE IF 100 * gap >= DISPARITY_OPTIMAL_MIN * sum
                   THEN DISPARITY_OPTIMAL_MIN
                   ELSE 0]

CUP_MIN_DURATION == 60
BREAKOUT_IMMINENT_THRESHOLD == 97    \* percent of the resistance price
BREAKOUT_CONFIRMED_THRESHOLD == 100
CupHandle_min_data_length == 150

CupHandle_calculate_score(cup_detected, handle_detected, breakout_imminent, breakout_confirmed, volume_surge) ==
    LET score ==
          (IF cup_detected THEN 25 ELSE 0)
          + (IF handle_detected THEN 15 ELSE 0)
          + (IF breakout_confirmed THEN 25 ELSE IF breakout_imminent THEN 15 ELSE 0)
          + (IF volume_surge THEN 20 ELSE 0)
    IN Min(score, 100)

\* df.cup: _find_cup_pattern retained a candidate; df.handle: the handle
\* depth qualifies; df.prc: current price in percent of max(left, right peak).
CupHandle_analyze(df) ==
    IF ~has_sufficient_data(df, CupHandle_min_data_length) THEN None
    ELSE IF ~df.ok THEN None
    ELSE IF df.len < CUP_MIN_DURATION \/ ~df.cup THEN
      [present |-> TRUE, cup_detected |-> FALSE, handle_detected |-> FALSE,
       breakout_imminent |-> FALSE, breakout_confirmed |-> FALSE,
       volume_surge |-> FALSE, score |-> 0]
    ELSE
      LET breakout_imminent == df.prc >= BREAKOUT_IMMINENT_THRESHOLD
          breakout_confirmed == df.prc >= BREAKOUT_CONFIRMED_THRESHOLD
          volume_surge == df.vol >= VOLUME_SURGE_RATIO
      IN [present |-> TRUE, cup_detected |-> TRUE, handle_detected |-> df.handle,
          breakout_imminent |-> breakout_imminent,
          breakout_confirmed |-> breakout_confirmed,
          volume_surge |-> volume_surge,
          score |-> CupHandle_calculate_score(TRUE, df.handle, breakout_imminent,
                        breakout_confirmed, volume_surge)]

(***************************************************************************)
(* Chart-pattern search on concrete bars (CupHandleAnalyzer._find_cup_     *)
(* pattern, _find_handle_pattern).  highs, closes and lows are sequences   *)
(* of integer prices; the code's index i is position i + 1.  Percentages   *)
(* and ratios are compared by cross-multiplication, which agrees with the  *)
(* code's floating-point comparisons on integer prices away from rounding  *)
(* ties.                                                                   *)
(***************************************************************************)
CUP_MAX_DURATION == 130
CUP_SEARCH_MARGIN == 20       \* search_range = min(len, CUP_MAX_DURATION + 20)
CUP_MIN_DEPTH == 15
CUP_MAX_DEPTH == 40
RIGHT_PEAK_MIN_RATIO == 90    \* 0.90, in percent
RIGHT_PEAK_MAX_RATIO == 110   \* 1.10, in percent
U_SHAPE_RATIO == 9            \* bottom must be below 0.9 of each peak (9 / 10)
IDEAL_DEPTH == 25
LEFT_REGION_BEFORE == 5
LEFT_REGION_AFTER == 10
EDGE == 5                     \* bars kept between peak, bottom and end
HANDLE_MIN_DEPTH == 5
HANDLE_MAX_DEPTH == 15

\* np.argmax(seq[lo:hi]) + lo: the first index of the largest value
argmax(seq, lo, hi) ==
    LET values == {seq[j + 1] : j \in lo..(hi - 1)}
        largest == CHOOSE v \in values : \A w \in values : v >= w
    IN CHOOSE i \in lo..(hi - 1) :
           seq[i + 1] = largest /\ \A j \in lo..(i - 1) : seq[j + 1] # largest

\* np.argmin(seq[lo:hi]) + lo: the first index of the smallest value
argmin(seq, lo, hi) ==
    LET values == {seq[j + 1] : j \in lo..(hi - 1)}
        smallest == CHOOSE v \in values : \A w \in values : v <= w
    IN CHOOSE i \in lo..(hi - 1) :
           seq[i + 1] = smallest /\ \A j \in lo..(i - 1) : seq[j + 1] # smallest

\* pattern_score = symmetry_score * depth_score as the fraction num / den:
\* symmetry_score = (left - |right - left|) / left,
\* depth_score = 1 - |depth - 25| / 25 = (left - |3 left - 4 bottom|) / left
pattern_score_num(left_peak, cup_bottom, right_peak) ==
    (left_peak - Abs(right_peak - left_peak))
    * (left_peak - Abs((100 - IDEAL_DEPTH) * left_peak - 100 * cup_bottom) \div IDEAL_DEPTH)

\* a depth check that lets every dip through
cup_depth_unchecked(left_peak, cup_bottom) == TRUE

\* a depth check that turns every dip away
cup_depth_refused(left_peak, cup_bottom) == FALSE

\* cup_depth = (left_peak - cup_bottom) / left_peak * 100 within
\* [CUP_MIN_DEPTH, CUP_MAX_DEPTH]
cup_depth_in_range(left_peak, cup_bottom) ==
    /\ 100 * (left_peak - cup_bottom) >= CUP_MIN_DEPTH * left_peak
    /\ 100 * (left_peak - cup_bottom) <= CUP_MAX_DEPTH * left_peak

\* the checks of one (start, duration) candidate after the bottom is known
cup_candidate(highs, closes, len, start_offset, left_peak_idx, end_idx, duration) ==
    LET left_peak == highs[left_peak_idx + 1]
        search_start == left_peak_idx + EDGE
        search_end == end_idx - EDGE
    IN IF search_end <= search_start THEN None
       ELSE LET bottom_idx == argmin(closes, search_start, search_end)
                cup_bottom == closes[bottom_idx + 1]
                right_region_start == bottom_idx + EDGE
                right_region_end == Min(len, end_idx + EDGE)
            IN IF ~cup_depth_in_range(left_peak, cup_bottom) THEN None
               ELSE IF right_region_end <= right_region_start THEN None
               ELSE LET right_peak_idx == argmax(highs, right_region_start, right_region_end)
                        right_peak == highs[right_peak_idx + 1]
                    IN IF 100 * right_peak < RIGHT_PEAK_MIN_RATIO * left_peak
                          \/ 100 * right_peak > RIGHT_PEAK_MAX_RATIO * left_peak
                       THEN None
                       ELSE IF 10 * cup_bottom >= U_SHAPE_RATIO * left_peak
                               \/ 10 * cup_bottom >= U_SHAPE_RATIO * right_peak
                       THEN None
                       ELSE [present |-> TRUE,
                             cup_start_idx |-> left_peak_idx,
                             cup_bottom_idx |-> bottom_idx,
                             cup_end_idx |-> right_peak_idx,
                             left_peak |-> left_peak, cup_bottom |-> cup_bottom,
                             right_peak |-> right_peak, cup_duration |-> duration,
                             start_offset |-> start_offset,
                             score_num |-> pattern_score_num(left_peak, cup_bottom,
                                                             right_peak)]

\* pattern_score > best_score (best_score starts at 0)
better_cup(cand, best) ==
    /\ cand.present
    /\ IF best.present
       THEN cand.score_num * best.left_peak * best.left_peak
            > best.score_num * cand.left_peak * cand.left_peak
       ELSE cand.score_num > 0

\* does x replace c as best_cup, or stand before it in the loops with the
\* same pattern_score?
precedes_as_best(x, c) ==
    \/ better_cup(x, c)
    \/ /\ ~better_cup(c, x)
       /\ \/ x.start_offset < c.start_offset
          \/ x.start_offset = c.start_offset /\ x.cup_duration < c.cup_duration

\* a search that keeps the first candidate it accepts and never replaces it
first_cup_of(survivors) ==
    IF survivors = {} THEN None
    ELSE CHOOSE c \in survivors :
             \A x \in survivors :
                 ~(\/ x.start_offset < c.start_offset
                   \/ x.start_offset = c.start_offset /\ x.cup_duration < c.cup_duration)

\* best_cup after both loops: the first surviving candidate no later one
\* strictly beats, None when none survives with a positive pattern_score
best_cup_of(survivors) ==
    IF survivors = {} THEN None
    ELSE CHOOSE c \in survivors : \A x \in survivors : ~precedes_as_best(x, c)

\* for duration in range(CUP_MIN_DURATION, min(start_offset, CUP_MAX_DURATION) + 1):
\* the candidates of one start_offset that pass every check, end_idx >= len
\* skipped
cups_from(highs, closes, len, start_offset, left_peak_idx) ==
    {c \in {cup_candidate(highs, closes, len, start_offset, left_peak_idx,
                          len - start_offset - 1 + duration, duration) :
                duration \in {d \in CUP_MIN_DURATION..Min(start_offset, CUP_MAX_DURATION) :
                                 len - start_offset - 1 + d < len}} :
        c.present /\ better_cup(c, None)}

\* for start_offset in range(CUP_MIN_DURATION, search_range), stopping when
\* start_idx < 0; the left peak is the highest high of
\* [start_idx - 5, start_idx + 10)
surviving_cups(highs, closes, len, search_range) ==
    UNION {cups_from(highs, closes, len, start_offset,
                     argmax(highs, Max(0, len - start_offset - 1 - LEFT_REGION_BEFORE),
                            Min(len, len - start_offset - 1 + LEFT_REGION_AFTER))) :
              start_offset \in {o \in CUP_MIN_DURATION..(search_range - 1) :
                                   len - o - 1 >= 0}}

find_cup_pattern(highs, closes) ==
    IF Len(closes) < CUP_MIN_DURATION THEN None
    ELSE best_cup_of(surviving_cups(highs, closes, Len(closes),
                         Min(Len(closes), CUP_MAX_DURATION + CUP_SEARCH_MARGIN)))

\* a handle search that does not ask for room after the cup's end
handle_without_room(lows, cup_end_idx, right_peak) ==
    \E i \in (cup_end_idx + 1)..Len(lows) :
        /\ \A j \in (cup_end_idx + 1)..Len(lows) : lows[i] <= lows[j]
        /\ 100 * (right_peak - lows[i]) >= HANDLE_MIN_DEPTH * right_peak
        /\ 100 * (right_peak - lows[i]) <= HANDLE_MAX_DEPTH * right_peak

\* _find_handle_pattern: does the lowest Low since the right peak lie 5..15 %
\* below it?
find_handle_pattern(lows, cup_end_idx, right_peak) ==
    IF cup_end_idx >= Len(lows) - EDGE THEN FALSE
    ELSE LET handle_low == lows[argmin(lows, cup_end_idx, Len(lows)) + 1]
         IN /\ 100 * (right_peak - handle_low) >= HANDLE_MIN_DEPTH * right_peak
            /\ 100 * (right_peak - handle_low) <= HANDLE_MAX_DEPTH * right_peak

\* what analyze reads off the bars once the cup search answered: the flags
\* CupHandle_analyze takes from df, and the cup it reports
cup_reading(bars, cup) ==
    IF ~cup.present THEN [bars EXCEPT !.cup = FALSE]
    ELSE [bars EXCEPT
            !.cup = TRUE,
            !.handle = find_handle_pattern(bars.lows, cup.cup_end_idx, cup.right_peak),
            !.prc = (100 * bars.closes[Len(bars.closes)])
                    \div Max(cup.left_peak, cup.right_peak)]

\* analyze after _find_cup_pattern answered: the CupHandleSignal, with the
\* cup's prices and places when one was found
cup_found(bars, cup) ==
    IF cup.present
    THEN [left_peak_price |-> cup.left_peak, cup_bottom_price |-> cup.cup_bottom,
          right_peak_price |-> cup.right_peak, cup_start_idx |-> cup.cup_start_idx,
          cup_bottom_idx |-> cup.cup_bottom_idx, cup_end_idx |-> cup.cup_end_idx,
          cup_duration_days |-> cup.cup_duration]
         @@ CupHandle_analyze(cup_reading(bars, cup))
    ELSE CupHandle_analyze(cup_reading(bars, cup))

\* CupHandleAnalyzer.analyze on concrete bars
CupHandle_analyze_bars(bars) ==
    IF ~has_sufficient_data(bars, CupHandle_min_data_length) \/ ~bars.ok THEN None
    ELSE cup_found(bars, find_cup_pattern(bars.highs, bars.closes))

(***************************************************************************)
(* Fundamental analyzers (BaseFundamentalAnalyzer and its four subclasses) *)
(* A FundamentalData record: valid (is_valid), price_ok (current_price is  *)
(* a number), roe / gpm (yearly values, oldest first), total_debt,         *)
(* total_equity, net_income, capex (yearly records, oldest first, with     *)
(* ratio = capex / net income in percent and pos = net income > 0).        *)
(***************************************************************************)
\* a sufficiency check that lets every record through
fundamental_data_unchecked(data) == TRUE

has_sufficient_fundamental_data(data) == data.valid

ROE_min_years_required == 3
ROE_max_score == 30
ROE_EXCELLENT == 20
ROE_GOOD == 15
ROE_FAIR == 10
STD_HIGHLY_CONSISTENT == 3
STD_CONSISTENT == 5

\* np.std(h) <= k for the population standard deviation, without roots:
\* n * sum(x^2) - sum(x)^2 <= k^2 * n^2
StdAtMost(h, k) ==
    LET n == Len(h)
        sq == [i \in 1..n |-> h[i] * h[i]]
    IN n <= 1 \/ n * SumSeq(sq) - SumSeq(h) * SumSeq(h) <= k * k * n * n

\* a trend analysis that never sees a trend
ROE_trend_ignored(roe_history) == 0

ROE_analyze_trend(roe_history) ==
    IF Len(roe_history) < 2 THEN 0
    ELSE LET recent == LastN(roe_history, 3)
             first == recent[1]
             last == recent[Len(recent)]
         IN IF last > first + 2 THEN 5
            ELSE IF last < first - 2 THEN -5
            ELSE 0

ROE_calculate_score(roe_above_20, roe_above_15, roe_above_10, is_highly_consistent, is_consistent, trend_score, years_available) ==
    LET score ==
          (IF roe_above_20 THEN 15 ELSE IF roe_above_15 THEN 10
           ELSE IF roe_above_10 THEN 5 ELSE 0)
          + (IF years_available >= 5
             THEN (IF is_highly_consistent THEN 10 ELSE IF is_consistent THEN 5 ELSE 0)
             ELSE 0)
          + trend_score
    IN Max(0, Min(score, ROE_max_score))

ROE_analyze(data) ==
    IF ~has_sufficient_fundamental_data(data) THEN None
    ELSE IF Len(data.roe) < ROE_min_years_required THEN None
    ELSE
      LET roe_history == data.roe
          current_roe == roe_history[Len(roe_history)]
          is_highly_consistent == StdAtMost(roe_history, STD_HIGHLY_CONSISTENT)
          is_consistent == StdAtMost(roe_history, STD_CONSISTENT)
          trend_score == ROE_analyze_trend(roe_history)
      IN [present |-> TRUE,
          current_roe |-> current_roe,
          years_available |-> Len(roe_history),
          is_highly_consistent |-> is_highly_consistent,
          is_consistent |-> is_consistent,
          trend_score |-> trend_score,
          score |-> ROE_calculate_score(current_roe >= ROE_EXCELLENT,
                        current_roe >= ROE_GOOD, current_roe >= ROE_FAIR,
                        is_highly_consistent, is_consistent, trend_score,
                        Len(roe_history))]

GPM_max_score == 25
GPM_EXCELLENT == 50
GPM_GOOD == 40
GPM_FAIR == 30

GPM_check_three_year_stability(gpm_history) ==
    IF Len(gpm_history) < 3 THEN FALSE
    ELSE LET recent_3 == LastN(gpm_history, 3)
         IN \A i \in 2..3 : ~(recent_3[i] < recent_3[i - 1] - 2)

GPM_calculate_score(gpm_above_50, gpm_above_40, gpm_above_30, three_year_stable_or_rising) ==
    LET score ==
          (IF gpm_above_50 THEN 15 ELSE IF gpm_above_40 THEN 10
           ELSE IF gpm_above_30 THEN 5 ELSE 0)
          + (IF three_year_stable_or_rising THEN 10 ELSE 0)
    IN Min(score, GPM_max_score)

GPM_analyze(data) ==
    IF ~has_sufficient_fundamental_data(data) THEN None
    ELSE IF Len(data.gpm) < 1 THEN None
    ELSE
      LET gpm_history == data.gpm
          current_gpm == gpm_history[Len(gpm_history)]
          stable == GPM_check_three_year_stability(gpm_history)
      IN [present |-> TRUE,
          current_gpm |-> current_gpm,
          three_year_stable_or_rising |-> stable,
          score |-> GPM_calculate_score(current_gpm >= GPM_EXCELLENT,
                        current_gpm >= GPM_GOOD, current_gpm >= GPM_FAIR, stable)]

Debt_max_score == 25
DEBT_EXCELLENT == 50
DEBT_GOOD == 100
DEBT_FAIR == 150
DEBT_POOR == 200
REPAY_5_YEARS == 20
REPAY_10_YEARS == 10

\* a score that is capped but not floored
Debt_calculate_score_unfloored(debt_below_50, debt_below_100, debt_below_150, debt_above_200, can_repay_in_5_years, can_repay_in_10_years) ==
    Min(Debt_max_score,
        (IF debt_above_200 THEN -10 ELSE IF debt_below_50 THEN 15
         ELSE IF debt_below_100 THEN 10 ELSE IF debt_below_150 THEN 5 ELSE 0)
        + (IF can_repay_in_5_years THEN 10
           ELSE IF can_repay_in_10_years THEN 5 ELSE 0))

Debt_calculate_score(debt_below_50, debt_below_100, debt_below_150, debt_above_200, can_repay_in_5_years, can_repay_in_10_years) ==
    LET score ==
          (IF debt_above_200 THEN -10 ELSE IF debt_below_50 THEN 15
           ELSE IF debt_below_100 THEN 10 ELSE IF debt_below_150 THEN 5 ELSE 0)
          + (IF can_repay_in_5_years THEN 10
             ELSE IF can_repay_in_10_years THEN 5 ELSE 0)
    IN Max(0, Min(score, Debt_max_score))

\* debt_ratio = total_debt / total_equity * 100 (999.9 when equity <= 0) and
\* repayment_ratio = net_income / total_debt * 100 (0 unless both positive),
\* compared by cross-multiplication.
DebtRatioAtMost(data, pct) ==
    data.total_equity > 0 /\ data.total_debt * 100 <= pct * data.total_equity

RepaymentAtLeast(data, pct) ==
    data.total_debt > 0 /\ data.net_income > 0
    /\ data.net_income * 100 >= pct * data.total_debt

Debt_analyze(data) ==
    IF ~has_sufficient_fundamental_data(data) THEN None
    ELSE
      LET debt_below_50 == DebtRatioAtMost(data, DEBT_EXCELLENT)
          debt_below_100 == DebtRatioAtMost(data, DEBT_GOOD)
          debt_below_150 == DebtRatioAtMost(data, DEBT_FAIR)
          debt_above_200 == ~DebtRatioAtMost(data, DEBT_POOR)
          can_repay_in_5_years == RepaymentAtLeast(data, REPAY_5_YEARS)
          can_repay_in_10_years == RepaymentAtLeast(data, REPAY_10_YEARS)
      IN [present |-> TRUE,
          debt_below_50 |-> debt_below_50,
          debt_below_100 |-> debt_below_100,
          debt_below_150 |-> debt_below_150,
          debt_above_200 |-> debt_above_200,
          can_repay_in_5_years |-> can_repay_in_5_years,
          can_repay_in_10_years |-> can_repay_in_10_years,
          score |-> Debt_calculate_score(debt_below_50, debt_below_100, debt_below_150,
                        debt_above_200, can_repay_in_5_years, can_repay_in_10_years)]

CapEx_max_score == 20
CAPEX_EXCELLENT == 15
CAPEX_GOOD == 25
CAPEX_FAIR == 35
CAPEX_POOR == 50
STABILITY_THRESHOLD_INV == 5      \* 1 / 0.20

CapEx_calculate_score(capex_below_15, capex_below_25, capex_below_35, capex_above_50, is_stable) ==
    LET score ==
          (IF capex_above_50 THEN -10 ELSE IF capex_below_15 THEN 15
           ELSE IF capex_below_25 THEN 10 ELSE IF capex_below_35 THEN 5 ELSE 0)
          + (IF is_stable THEN 5 ELSE 0)
    IN Max(0, Min(score, CapEx_max_score))

\* ratio_history: the ratios of the years whose net income is positive
RECURSIVE ratio_history(_)
ratio_history(years) ==
    IF years = <<>> THEN <<>>
    ELSE IF Head(years).pos THEN <<Head(years).ratio>> \o ratio_history(Tail(years))
    ELSE ratio_history(Tail(years))

CapEx_analyze(data) ==
    IF ~has_sufficient_fundamental_data(data) THEN None
    ELSE IF data.capex = <<>> THEN None
    ELSE IF ratio_history(data.capex) = <<>> THEN None
    ELSE
      LET ratio_values == ratio_history(data.capex)
          current_ratio == ratio_values[Len(ratio_values)]
          recent_3_ratios == LastN(ratio_values, 3)
          k == Len(recent_3_ratios)
          total == SumSeq(recent_3_ratios)       \* ratio_3y_avg = total / k
          \* ratio_3y_avg > 0 and |current - avg| / avg <= 0.20
          is_stable == total > 0
                       /\ Abs(current_ratio * k - total) * STABILITY_THRESHOLD_INV <= total
          capex_below_15 == current_ratio < CAPEX_EXCELLENT
          capex_below_25 == current_ratio < CAPEX_GOOD
          capex_below_35 == current_ratio < CAPEX_FAIR
          capex_above_50 == current_ratio >= CAPEX_POOR
      IN [present |-> TRUE,
          capex_to_income_ratio |-> current_ratio,
          years_available |-> Len(ratio_values),
          capex_below_15 |-> capex_below_15,
          capex_below_25 |-> capex_below_25,
          capex_below_35 |-> capex_below_35,
          capex_above_50 |-> capex_above_50,
          is_stable |-> is_stable,
          score |-> CapEx_calculate_score(capex_below_15, capex_below_25, capex_below_35,
                        capex_above_50, is_stable)]

(***************************************************************************)
(* Per-asset aggregators (TechnicalService, FundamentalService)            *)
(* A filter list is represented by the set of names it holds: the code     *)
(* only tests membership and iterates to a verdict that does not depend    *)
(* on order or repetition.                                                 *)
(***************************************************************************)
\* an exception propagating out of a call
Exception == [present |-> FALSE, exception |-> TRUE]

Technical_min_rows == 30
BONUS_bollinger == 15
BONUS_ma_alignment == 15
BONUS_cup_handle == 20
SCORE_THRESHOLD_bollinger == 40
SCORE_THRESHOLD_ma_alignment == 40
SCORE_THRESHOLD_cup_handle == 40

\* signal.score if signal else 0
ScoreOr0(signal) == IF signal.present THEN signal.score ELSE 0

\* the part of analyze_stock after the analyzers ran: scores, active
\* patterns, bonus and total
TechnicalSignal(bollinger_signal, ma_alignment_signal, cup_handle_signal) ==
      LET bollinger_score == ScoreOr0(bollinger_signal)
          ma_alignment_score == ScoreOr0(ma_alignment_signal)
          cup_handle_score == ScoreOr0(cup_handle_signal)
          bb == bollinger_score >= SCORE_THRESHOLD_bollinger
          ma == ma_alignment_score >= SCORE_THRESHOLD_ma_alignment
          ch == cup_handle_score >= SCORE_THRESHOLD_cup_handle
          active_patterns ==
              (IF bb THEN <<"bollinger_squeeze">> ELSE <<>>)
              \o (IF ma THEN <<"ma_alignment">> ELSE <<>>)
              \o (IF ch THEN <<"cup_handle">> ELSE <<>>)
          bonus_score == (IF bb THEN BONUS_bollinger ELSE 0)
                         + (IF ma THEN BONUS_ma_alignment ELSE 0)
                         + (IF ch THEN BONUS_cup_handle ELSE 0)
      IN [present |-> TRUE,
          bollinger |-> bollinger_signal,
          ma_alignment |-> ma_alignment_signal,
          cup_handle |-> cup_handle_signal,
          total_score |-> bollinger_score + ma_alignment_score + cup_handle_score
                          + bonus_score,
          active_patterns |-> active_patterns,
          bollinger_score |-> bollinger_score,
          ma_alignment_score |-> ma_alignment_score,
          cup_handle_score |-> cup_handle_score,
          bonus_score |-> bonus_score]

Technical_analyze_stock(df, fl) ==
    IF df.len < Technical_min_rows THEN None
    ELSE IF ~df.ok THEN Exception            \* df.iloc[-1]["Close"] / round()
    ELSE TechnicalSignal(
           IF "bollinger" \in fl THEN Bollinger_analyze(df) ELSE None,
           IF "ma_alignment" \in fl THEN MAAlignment_analyze(df) ELSE None,
           IF "cup_handle" \in fl THEN CupHandle_analyze(df) ELSE None)

Fundamental_BONUS == 5
SCORE_THRESHOLD_roe == 15
SCORE_THRESHOLD_gpm == 15
SCORE_THRESHOLD_debt == 15
SCORE_THRESHOLD_capex == 10

\* analyze_stock with the cross-filter formula 10 x (count - 1) in place of
\* the fundamental one
FundamentalSignal_unified_bonus(roe_signal, gpm_signal, debt_signal, capex_signal) ==
      LET roe_score == ScoreOr0(roe_signal)
          gpm_score == ScoreOr0(gpm_signal)
          debt_score == ScoreOr0(debt_signal)
          capex_score == ScoreOr0(capex_signal)
          active_patterns ==
              (IF roe_score >= SCORE_THRESHOLD_roe THEN <<"roe_excellence">> ELSE <<>>)
              \o (IF gpm_score >= SCORE_THRESHOLD_gpm THEN <<"gpm_excellence">> ELSE <<>>)
              \o (IF debt_score >= SCORE_THRESHOLD_debt THEN <<"low_debt">> ELSE <<>>)
              \o (IF capex_score >= SCORE_THRESHOLD_capex
                  THEN <<"capital_efficient">> ELSE <<>>)
          bonus_score == IF Len(active_patterns) >= 2
                         THEN 10 * (Len(active_patterns) - 1) ELSE 0
      IN [present |-> TRUE,
          roe |-> roe_signal,
          gpm |-> gpm_signal,
          debt |-> debt_signal,
          capex |-> capex_signal,
          total_score |-> roe_score + gpm_score + debt_score + capex_score + bonus_score,
          active_patterns |-> active_patterns,
          roe_score |-> roe_score,
          gpm_score |-> gpm_score,
          debt_score |-> debt_score,
          capex_score |-> capex_score,
          bonus_score |-> bonus_score]

\* the part of analyze_stock after the analyzers ran
FundamentalSignal(roe_signal, gpm_signal, debt_signal, capex_signal) ==
      LET roe_score == ScoreOr0(roe_signal)
          gpm_score == ScoreOr0(gpm_signal)
          debt_score == ScoreOr0(debt_signal)
          capex_score == ScoreOr0(capex_signal)
          active_patterns ==
              (IF roe_score >= SCORE_THRESHOLD_roe THEN <<"roe_excellence">> ELSE <<>>)
              \o (IF gpm_score >= SCORE_THRESHOLD_gpm THEN <<"gpm_excellence">> ELSE <<>>)
              \o (IF debt_score >= SCORE_THRESHOLD_debt THEN <<"low_debt">> ELSE <<>>)
              \o (IF capex_score >= SCORE_THRESHOLD_capex
                  THEN <<"capital_efficient">> ELSE <<>>)
          bonus_score == IF Len(active_patterns) >= 2
                         THEN Fundamental_BONUS * (Len(active_patterns) - 1) ELSE 0
      IN [present |-> TRUE,
          roe |-> roe_signal,
          gpm |-> gpm_signal,
          debt |-> debt_signal,
          capex |-> capex_signal,
          total_score |-> roe_score + gpm_score + debt_score + capex_score + bonus_score,
          active_patterns |-> active_patterns,
          roe_score |-> roe_score,
          gpm_score |-> gpm_score,
          debt_score |-> debt_score,
          capex_score |-> capex_score,
          bonus_score |-> bonus_score]

Fundamental_analyze_stock(data, fl) ==
    IF ~data.valid THEN None
    ELSE IF ~data.price_ok THEN Exception    \* round(current_price, 2)
    ELSE FundamentalSignal(
           IF "roe" \in fl THEN ROE_analyze(data) ELSE None,
           IF "gpm" \in fl THEN GPM_analyze(data) ELSE None,
           IF "debt" \in fl THEN Debt_analyze(data) ELSE None,
           IF "capex" \in fl THEN CapEx_analyze(data) ELSE None)

\* get_fundamental_data answers None or an invalid record for a ticker
\* without usable statements; both end in None here.
Fundamental_analyze_stock_by_ticker(data, fl) ==
    IF ~data.valid THEN None ELSE Fundamental_analyze_stock(data, fl)

(***************************************************************************)
(* Batch scanner (ScreeningService)                                        *)
(* A stock is [ticker, df, fd]: its price series and the fundamental       *)
(* record the data service answers for its ticker.                         *)
(***************************************************************************)
TECHNICAL_THRESHOLD == 40
FUNDAMENTAL_THRESHOLD_roe == 15
FUNDAMENTAL_THRESHOLD_gpm == 15
FUNDAMENTAL_THRESHOLD_debt == 15
FUNDAMENTAL_THRESHOLD_capex == 10
FUNDAMENTAL_FILTERS == {"roe", "gpm", "debt", "capex"}

\* the StockSignal fields screening_service.py reads and writes, with the
\* model's defaults
StockSignal_defaults(ticker, mkt) ==
    [present |-> TRUE, ticker |-> ticker, market |-> mkt,
     signal_strength |-> "", score |-> 0,
     price_above_cloud |-> FALSE, tenkan_above_kijun |-> FALSE,
     chikou_above_price |-> FALSE,
     bollinger_score |-> 0, ma_alignment_score |-> 0, cup_handle_score |-> 0,
     cup_handle_pattern |-> FALSE,
     bonus_score |-> 0, total_technical_score |-> 0, active_patterns |-> <<>>,
     roe_score |-> 0, gpm_score |-> 0, debt_score |-> 0, capex_score |-> 0,
     total_fundamental_score |-> 0, fundamental_patterns |-> <<>>]

signal_to_stock_signal(ticker, mkt, signal, technical_signal) ==
    LET base == [StockSignal_defaults(ticker, mkt) EXCEPT
                   !.signal_strength = signal.signal_strength,
                   !.score = signal.score,
                   !.price_above_cloud = signal.price_above_cloud,
                   !.tenkan_above_kijun = signal.tenkan_above_kijun,
                   !.chikou_above_price = signal.chikou_above_price]
    IN IF ~technical_signal.present THEN base
       ELSE [base EXCEPT
               !.bollinger_score = IF technical_signal.bollinger.present
                                   THEN technical_signal.bollinger.score ELSE @,
               !.ma_alignment_score = IF technical_signal.ma_alignment.present
                                      THEN technical_signal.ma_alignment.score ELSE @,
               !.cup_handle_score = IF technical_signal.cup_handle.present
                                    THEN technical_signal.cup_handle.score ELSE @,
               !.cup_handle_pattern = IF technical_signal.cup_handle.present
                                      THEN technical_signal.cup_handle.cup_detected ELSE @,
               !.bonus_score = technical_signal.bonus_score,
               !.total_technical_score = technical_signal.total_score,
               !.active_patterns = technical_signal.active_patterns]

create_stock_signal_from_technical(ticker, mkt, technical_signal) ==
    [StockSignal_defaults(ticker, mkt) EXCEPT
       !.signal_strength = "TECHNICAL",
       !.score = technical_signal.total_score,
       !.bollinger_score = technical_signal.bollinger_score,
       !.ma_alignment_score = technical_signal.ma_alignment_score,
       !.cup_handle_score = technical_signal.cup_handle_score,
       !.cup_handle_pattern = IF technical_signal.cup_handle.present
                              THEN technical_signal.cup_handle.cup_detected ELSE FALSE,
       !.bonus_score = technical_signal.bonus_score,
       !.total_technical_score = technical_signal.total_score,
       !.active_patterns = technical_signal.active_patterns]

merge_fundamental_signal_without_patterns(stock_signal, fundamental_signal) ==
    IF ~fundamental_signal.present THEN stock_signal
    ELSE [stock_signal EXCEPT
            !.roe_score = ScoreOr0(fundamental_signal.roe),
            !.gpm_score = ScoreOr0(fundamental_signal.gpm),
            !.debt_score = ScoreOr0(fundamental_signal.debt),
            !.capex_score = ScoreOr0(fundamental_signal.capex),
            !.total_fundamental_score = fundamental_signal.total_score]

merge_fundamental_signal(stock_signal, fundamental_signal) ==
    IF ~fundamental_signal.present THEN stock_signal
    ELSE [stock_signal EXCEPT
            !.roe_score = IF fundamental_signal.roe.present
                          THEN fundamental_signal.roe.score ELSE @,
            !.gpm_score = IF fundamental_signal.gpm.present
                          THEN fundamental_signal.gpm.score ELSE @,
            !.debt_score = IF fundamental_signal.debt.present
                           THEN fundamental_signal.debt.score ELSE @,
            !.capex_score = IF fundamental_signal.capex.present
                            THEN fundamental_signal.capex.score ELSE @,
            !.total_fundamental_score = fundamental_signal.total_score,
            !.fundamental_patterns = fundamental_signal.active_patterns]

create_stock_signal_from_fundamental(ticker, mkt, fundamental_signal) ==
    merge_fundamental_signal(
        [StockSignal_defaults(ticker, mkt) EXCEPT
           !.signal_strength = "FUNDAMENTAL",
           !.score = fundamental_signal.total_score],
        fundamental_signal)

ichimoku_perfect(ichimoku) ==
    ichimoku.price_above_cloud /\ ichimoku.tenkan_above_kijun
    /\ ichimoku.chikou_above_price

\* the verdict of one branch of the filter loops: does filter f clear?
filter_clears(f, ichimoku, technical, fundamental, min_score_, perfect_only_) ==
    CASE f = "ichimoku" ->
           ichimoku.present
           /\ (IF perfect_only_ THEN ichimoku_perfect(ichimoku)
               ELSE ichimoku.score >= min_score_)
      [] f = "bollinger" ->
           technical.present /\ technical.bollinger.present
           /\ technical.bollinger.score >= TECHNICAL_THRESHOLD
      [] f = "ma_alignment" ->
           technical.present /\ technical.ma_alignment.present
           /\ technical.ma_alignment.score >= TECHNICAL_THRESHOLD
      [] f = "cup_handle" ->
           technical.present /\ technical.cup_handle.present
           /\ technical.cup_handle.cup_detected
           /\ technical.cup_handle.score >= TECHNICAL_THRESHOLD
      [] f = "roe" ->
           fundamental.present /\ fundamental.roe.present
           /\ fundamental.roe.score >= FUNDAMENTAL_THRESHOLD_roe
      [] f = "gpm" ->
           fundamental.present /\ fundamental.gpm.present
           /\ fundamental.gpm.score >= FUNDAMENTAL_THRESHOLD_gpm
      [] f = "debt" ->
           fundamental.present /\ fundamental.debt.present
           /\ fundamental.debt.score >= FUNDAMENTAL_THRESHOLD_debt
      [] f = "capex" ->
           fundamental.present /\ fundamental.capex.present
           /\ fundamental.capex.score >= FUNDAMENTAL_THRESHOLD_capex

KNOWN_FILTERS == {"ichimoku", "bollinger", "ma_alignment", "cup_handle"}
                 \cup FUNDAMENTAL_FILTERS

\* a name matching no branch neither fails the AND loop nor passes the OR loop
passes_all_filters(ichimoku, technical, fundamental, fl, min_score_, perfect_only_) ==
    \A f \in fl \cap KNOWN_FILTERS :
        filter_clears(f, ichimoku, technical, fundamental, min_score_, perfect_only_)

passes_any_filter(ichimoku, technical, fundamental, fl, min_score_, perfect_only_) ==
    \E f \in fl \cap KNOWN_FILTERS :
        filter_clears(f, ichimoku, technical, fundamental, min_score_, perfect_only_)

calculate_cross_filter_bonus_per_pattern(technical) ==
    10 * Len(technical.active_patterns)

calculate_cross_filter_bonus(technical) ==
    LET active_count == Len(technical.active_patterns)
    IN IF active_count >= 2 THEN 10 * (active_count - 1) ELSE 0

\* the loop body of _analyze_stocks after the three analyses: the filter
\* verdict, the StockSignal built, the merge and the bonus
keep_or_skip(ticker, mkt, fl, mode, min_score_, perfect_only_, ichimoku_signal, technical_signal, fundamental_signal) ==
    LET passes == IF mode = "all"
                  THEN passes_all_filters(ichimoku_signal, technical_signal,
                           fundamental_signal, fl, min_score_, perfect_only_)
                  ELSE passes_any_filter(ichimoku_signal, technical_signal,
                           fundamental_signal, fl, min_score_, perfect_only_)
        created ==
            IF ichimoku_signal.present
            THEN signal_to_stock_signal(ticker, mkt, ichimoku_signal, technical_signal)
            ELSE IF technical_signal.present
            THEN create_stock_signal_from_technical(ticker, mkt, technical_signal)
            ELSE create_stock_signal_from_fundamental(ticker, mkt, fundamental_signal)
        merged ==
            IF fundamental_signal.present
               /\ (ichimoku_signal.present \/ technical_signal.present)
            THEN merge_fundamental_signal(created, fundamental_signal)
            ELSE created
        bonus == calculate_cross_filter_bonus(technical_signal)
    IN IF technical_signal = Exception \/ fundamental_signal = Exception THEN Exception
       ELSE IF ~passes THEN None
       ELSE IF ~ichimoku_signal.present /\ ~technical_signal.present
               /\ ~fundamental_signal.present THEN None
       ELSE IF technical_signal.present /\ ichimoku_signal.present
       THEN [merged EXCEPT !.score = @ + bonus, !.bonus_score = bonus]
       ELSE merged

\* one pass of the loop body of _analyze_stocks: None when the ticker is
\* skipped, Exception when a call raises, otherwise the StockSignal appended
analyze_one(stock, mkt, fl, mode, min_score_, perfect_only_) ==
    LET use_ichimoku == "ichimoku" \in fl
        technical_filters == {f \in fl : f # "ichimoku" /\ f \notin FUNDAMENTAL_FILTERS}
        fundamental_filters == {f \in fl : f \in FUNDAMENTAL_FILTERS}
    IN keep_or_skip(stock.ticker, mkt, fl, mode, min_score_, perfect_only_,
         IF use_ichimoku THEN Ichimoku_analyze_signal(stock.df) ELSE None,
         IF technical_filters # {}
         THEN Technical_analyze_stock(stock.df, technical_filters) ELSE None,
         IF fundamental_filters # {}
         THEN Fundamental_analyze_stock_by_ticker(stock.fd, fundamental_filters)
         ELSE None)

\* sorted(signals, key=lambda x: x.score, reverse=True): stable, descending
RECURSIVE insert_by_score(_, _)
insert_by_score(sorted, x) ==
    IF sorted = <<>> THEN <<x>>
    ELSE IF Head(sorted).score >= x.score
    THEN <<Head(sorted)>> \o insert_by_score(Tail(sorted), x)
    ELSE <<x>> \o sorted

as_appended(s) == s

RECURSIVE sorted_by_score(_)
sorted_by_score(s) ==
    IF s = <<>> THEN <<>>
    ELSE insert_by_score(sorted_by_score(SubSeq(s, 1, Len(s) - 1)), s[Len(s)])

IsPresent(x) == x.present

\* _analyze_stocks over the universe in dict order: [raised, signals]
analyze_stocks(stock_data, mkt, fl, mode, min_score_, perfect_only_) ==
    LET outs == [i \in 1..Len(stock_data) |->
                   analyze_one(stock_data[i], mkt, fl, mode, min_score_, perfect_only_)]
    IN IF \E i \in 1..Len(stock_data) : outs[i] = Exception
       THEN [raised |-> TRUE, signals |-> <<>>]
       ELSE [raised |-> FALSE, signals |-> sorted_by_score(SelectSeq(outs, IsPresent))]

TIER_STRONG_BUY == 80
TIER_BUY == 50
TIER_WEAK_BUY == 20

\* the classification loop of run_screening over all_signals[:limit * 3]
RECURSIVE classify(_, _, _)
classify(rest, lim, acc) ==
    IF rest = <<>> THEN acc
    ELSE LET signal == Head(rest)
             next ==
               IF signal.score >= TIER_STRONG_BUY
               THEN (IF Len(acc.strong_buy) < lim
                     THEN [acc EXCEPT !.strong_buy = Append(@, signal)] ELSE acc)
               ELSE IF signal.score >= TIER_BUY
               THEN (IF Len(acc.buy) < lim
                     THEN [acc EXCEPT !.buy = Append(@, signal)] ELSE acc)
               ELSE IF signal.score >= TIER_WEAK_BUY
               THEN (IF Len(acc.weak_buy) < lim
                     THEN [acc EXCEPT !.weak_buy = Append(@, signal)] ELSE acc)
               ELSE acc
         IN classify(Tail(rest), lim, next)

FirstN(s, k) == IF Len(s) <= k THEN s ELSE SubSeq(s, 1, k)

\* the ScreeningResponse lists: [raised, signals (all_signals), tiers]
ScreeningResponse(all_signals, tiers) ==
    [raised |-> FALSE, signals |-> all_signals,
     strong_buy |-> tiers.strong_buy, buy |-> tiers.buy, weak_buy |-> tiers.weak_buy]

\* run_screening after the markets were screened: sort, then classify
rank_and_classify(us_out, kr_out, lim) ==
    IF us_out.raised \/ kr_out.raised
    THEN [raised |-> TRUE, signals |-> <<>>,
          strong_buy |-> <<>>, buy |-> <<>>, weak_buy |-> <<>>]
    ELSE LET all_signals == sorted_by_score(us_out.signals \o kr_out.signals)
         IN ScreeningResponse(all_signals,
                classify(FirstN(all_signals, lim * 3), lim,
                         [strong_buy |-> <<>>, buy |-> <<>>, weak_buy |-> <<>>]))

run_screening(mkt, min_score_, perfect_only_, lim, fl, mode, us, kr) ==
    rank_and_classify(
        IF mkt \in {"US", "ALL"}
        THEN analyze_stocks(us, "US", fl, mode, min_score_, perfect_only_)
        ELSE [raised |-> FALSE, signals |-> <<>>],
        IF mkt \in {"KR", "ALL"}
        THEN analyze_stocks(kr, "KR", fl, mode, min_score_, perfect_only_)
        ELSE [raised |-> FALSE, signals |-> <<>>],
        lim)

(***************************************************************************)
(* Inputs                                                                  *)
(***************************************************************************)
MaxLen == 160          \* longest price series drawn
MaxYears == 5          \* longest ROE / margin history drawn
MaxCapexYears == 3     \* longest capex history drawn

BaselineSeries ==
    [len |-> MaxLen, ok |-> TRUE, gap |-> FALSE,
     pos |-> "below", tak |-> FALSE, cap |-> FALSE, bull |-> FALSE,
     cloud_before |-> [i \in 1..LOOKBACK |-> FALSE],
     cross_before |-> [i \in 1..LOOKBACK |-> FALSE],
     pct |-> 50, vol |-> 10, pb |-> 5,
     align |-> 0, gc5 |-> FALSE, gc20 |-> FALSE, gc60 |-> FALSE, disp |-> 0,
     cup |-> FALSE, handle |-> FALSE, prc |-> 90]

\* a series whose every analyzer sees its best case
BullishSeries ==
    [len |-> MaxLen, ok |-> TRUE, gap |-> FALSE,
     pos |-> "above", tak |-> TRUE, cap |-> TRUE, bull |-> TRUE,
     cloud_before |-> [i \in 1..LOOKBACK |-> FALSE],
     cross_before |-> [i \in 1..LOOKBACK |-> FALSE],
     pct |-> 5, vol |-> 30, pb |-> 9,
     align |-> 4, gc5 |-> TRUE, gc20 |-> TRUE, gc60 |-> TRUE, disp |-> 10,
     cup |-> TRUE, handle |-> TRUE, prc |-> 100]

LengthSeries ==
    {[s EXCEPT !.len = l, !.ok = o, !.gap = g] :
        s \in {BaselineSeries, BullishSeries}, l \in 0..MaxLen, o \in BOOLEAN,
        g \in BOOLEAN}

\* Histories: whether a comparison held on the 5 bars before the latest one,
\* oldest first: never, always, once in the middle, only on the oldest, on
\* all but the newest, on all but the oldest
IchimokuSeries ==
    LET Histories ==
          {[i \in 1..LOOKBACK |-> FALSE], [i \in 1..LOOKBACK |-> TRUE],
           [i \in 1..LOOKBACK |-> i = 3], [i \in 1..LOOKBACK |-> i = 1],
           [i \in 1..LOOKBACK |-> i < LOOKBACK], [i \in 1..LOOKBACK |-> i > 1]}
    IN {[BaselineSeries EXCEPT !.pos = p, !.tak = a, !.cap = b, !.bull = c,
                               !.cloud_before = d, !.cross_before = e] :
           p \in {"above", "inside", "below"}, a \in BOOLEAN, b \in BOOLEAN,
           c \in BOOLEAN, d \in Histories, e \in Histories}

BollingerSeries ==
    {[BaselineSeries EXCEPT !.pct = p, !.vol = v, !.pb = b] :
        p \in {5, 10, 15, 20, 21, 50}, v \in {10, 20, 25, 30}, b \in {5, 8, 10}}

MASeries ==
    {[BaselineSeries EXCEPT !.align = a, !.gc5 = x, !.gc20 = y, !.gc60 = z,
                            !.disp = d] :
        a \in 0..4, x \in BOOLEAN, y \in BOOLEAN, z \in BOOLEAN,
        d \in {-5, 4, 5, 15, 16}}

CupSeries ==
    {[BaselineSeries EXCEPT !.cup = c, !.handle = h, !.prc = p, !.vol = v] :
        c \in BOOLEAN, h \in BOOLEAN, p \in {90, 97, 100, 105}, v \in {10, 20}}

SeriesInputs ==
    LengthSeries \cup IchimokuSeries \cup BollingerSeries \cup MASeries \cup CupSeries

SeqsUpTo(S, n) == UNION {[1..k -> S] : k \in 0..n}

BaselineFd ==
    [valid |-> TRUE, price_ok |-> TRUE, roe |-> <<>>, gpm |-> <<>>,
     total_debt |-> 0, total_equity |-> 100, net_income |-> 0, capex |-> <<>>]

RoeValues == {8, 10, 16, 22}
GpmValues == {28, 30, 42, 50}
CapexYears ==
    {[ratio |-> 0, pos |-> FALSE]}
    \cup {[ratio |-> r, pos |-> TRUE] : r \in {0, 10, 15, 20, 30, 40, 50, 60}}

RoeFd ==
    {[BaselineFd EXCEPT !.roe = h] :
        h \in SeqsUpTo(RoeValues, MaxYears) \cup {<<8, 9, 10, 11, 30>>}}
GpmFd == {[BaselineFd EXCEPT !.gpm = h] : h \in SeqsUpTo(GpmValues, MaxYears)}
DebtFd ==
    {[BaselineFd EXCEPT !.total_debt = d, !.total_equity = e, !.net_income = n] :
        d \in {0, 40, 50, 100, 150, 180, 200, 250}, e \in {-10, 0, 100},
        n \in {-5, 0, 10, 20, 60}}
CapexFd == {[BaselineFd EXCEPT !.capex = h] : h \in SeqsUpTo(CapexYears, MaxCapexYears)}
InvalidFd ==
    {[BaselineFd EXCEPT !.valid = FALSE],
     [BaselineFd EXCEPT !.valid = FALSE, !.roe = <<22, 22, 22>>, !.gpm = <<50>>,
                        !.capex = <<[ratio |-> 10, pos |-> TRUE]>>]}

FdInputs == RoeFd \cup GpmFd \cup DebtFd \cup CapexFd \cup InvalidFd

(***************************************************************************)
(* Specification SpecAnalyzers: one analyzer applied to one input          *)
(***************************************************************************)
IdleScanner ==
    /\ op = "init" /\ filters = {} /\ combine_mode = "any" /\ min_score = 50
    /\ perfect_only = FALSE /\ limit = 1 /\ market = "ALL"
    /\ us_stocks = <<>> /\ kr_stocks = <<>> /\ raised = FALSE
    /\ signals = <<>> /\ strong_buy = <<>> /\ buy = <<>> /\ weak_buy = <<>>
    /\ screening_results = {} /\ screening_date = "none"

scanner_vars == <<op, filters, combine_mode, min_score, perfect_only, limit, market,
                  us_stocks, kr_stocks, raised, signals, strong_buy, buy, weak_buy>>

InitAnalyzers ==
    /\ IdleScanner
    /\ analyzer = "none"
    /\ result = None
    /\ \/ series \in SeriesInputs /\ fdata = BaselineFd
       \/ series = BaselineSeries /\ fdata \in FdInputs

Apply(name, value) ==
    /\ analyzer = "none"
    /\ analyzer' = name
    /\ result' = value
    /\ UNCHANGED <<series, fdata>>
    /\ UNCHANGED scanner_vars
    /\ UNCHANGED <<screening_results, screening_date>>

RunIchimoku == Apply("ichimoku", Ichimoku_analyze_signal(series))
RunBollinger == Apply("bollinger", Bollinger_analyze(series))
RunMAAlignment == Apply("ma_alignment", MAAlignment_analyze(series))
RunCupHandle == Apply("cup_handle", CupHandle_analyze(series))
RunROE == Apply("roe", ROE_analyze(fdata))
RunGPM == Apply("gpm", GPM_analyze(fdata))
RunDebt == Apply("debt", Debt_analyze(fdata))
RunCapEx == Apply("capex", CapEx_analyze(fdata))

NextAnalyzers ==
    \/ RunIchimoku
    \/ RunBollinger
    \/ RunMAAlignment
    \/ RunCupHandle
    \/ RunROE
    \/ RunGPM
    \/ RunDebt
    \/ RunCapEx

SpecAnalyzers == InitAnalyzers /\ [][NextAnalyzers]_vars

(***************************************************************************)
(* Entry points of the scanner.  The services keep no state between calls, *)
(* so a behaviour holds one call: the universe is fixed by the initial     *)
(* state and the request is drawn by the action.                           *)
(***************************************************************************)
\* as_completed(futures): the orders in which n submitted tasks can complete
CompletionOrders(n) == {p \in [1..n -> 1..n] : \A i, j \in 1..n : p[i] = p[j] => i = j}

\* get_filtered_us_stocks / get_filtered_kr_stocks: every listed ticker is
\* fetched on the worker pool and appended as its future completes (order[i]
\* is the i-th future to complete); the tickers of the universe are the ones
\* that pass the trading-value filter
get_filtered_stocks(stock_list, order) ==
    [i \in 1..Len(stock_list) |-> stock_list[order[i]]]

RunScreening(mkt, ms, po, lim, fl, mode) ==
    /\ op = "init"
    /\ \E us_order \in CompletionOrders(Len(us_stocks)),
          kr_order \in CompletionOrders(Len(kr_stocks)) :
       \E r \in {run_screening(mkt, ms, po, lim, fl, mode,
                                get_filtered_stocks(us_stocks, us_order),
                                get_filtered_stocks(kr_stocks, kr_order))} :
       /\ op' = "run_screening"
       /\ market' = mkt /\ min_score' = ms /\ perfect_only' = po /\ limit' = lim
       /\ filters' = fl /\ combine_mode' = mode
       /\ raised' = r.raised
       /\ signals' = r.signals
       /\ strong_buy' = r.strong_buy /\ buy' = r.buy /\ weak_buy' = r.weak_buy
       /\ UNCHANGED <<us_stocks, kr_stocks, series, fdata, analyzer, result>>
    /\ UNCHANGED <<screening_results, screening_date>>

IdleAnalyzer ==
    series = BaselineSeries /\ fdata = BaselineFd /\ analyzer = "none" /\ result = None

IdleRequest ==
    /\ op = "init" /\ filters = {} /\ combine_mode = "any" /\ min_score = 50
    /\ perfect_only = FALSE /\ limit = 1 /\ market = "ALL" /\ raised = FALSE
    /\ signals = <<>> /\ strong_buy = <<>> /\ buy = <<>> /\ weak_buy = <<>>
    /\ screening_results = {} /\ screening_date = "none"

(***************************************************************************)
(* Specification SpecAsset: one asset, every filter list                   *)
(***************************************************************************)
\* technical profiles: the scores the trio reaches on a long, well-formed series
TechnicalProfiles ==
    { \* volatility-band 25, MA -20, no cup: none clears
      [BaselineSeries EXCEPT !.pct = 15, !.disp = 20],
      \* volatility-band 45 only: MA 25, no cup
      [BaselineSeries EXCEPT !.pct = 15, !.vol = 20, !.align = 3],
      \* cup 40 only
      [BaselineSeries EXCEPT !.cup = TRUE, !.handle = TRUE],
      \* volatility-band 45 and cup 45; MA 25
      [BaselineSeries EXCEPT !.pct = 15, !.vol = 20, !.align = 3, !.cup = TRUE],
      \* volatility-band 50 and MA 50; cup detected but 25
      [BaselineSeries EXCEPT !.pct = 5, !.pb = 9, !.align = 4, !.disp = 10,
                             !.cup = TRUE],
      \* MA 50 and cup 40; volatility-band 0
      [BaselineSeries EXCEPT !.align = 4, !.disp = 10, !.cup = TRUE, !.handle = TRUE],
      \* all three: volatility-band 45, MA 95, cup 85
      [BaselineSeries EXCEPT !.pct = 15, !.vol = 20, !.align = 4, !.gc5 = TRUE,
                             !.gc20 = TRUE, !.gc60 = TRUE, !.disp = 10,
                             !.cup = TRUE, !.handle = TRUE, !.prc = 100] }

\* trend-cloud profiles: -45; perfect 65; 60 not perfect; 100
IchimokuProfiles ==
    { [pos |-> "below", tak |-> FALSE, cap |-> FALSE, bull |-> FALSE, brk |-> FALSE, gc |-> FALSE],
      [pos |-> "above", tak |-> TRUE, cap |-> TRUE, bull |-> FALSE, brk |-> FALSE, gc |-> FALSE],
      [pos |-> "above", tak |-> TRUE, cap |-> FALSE, bull |-> TRUE, brk |-> FALSE, gc |-> TRUE],
      [pos |-> "above", tak |-> TRUE, cap |-> TRUE, bull |-> TRUE, brk |-> TRUE, gc |-> TRUE] }

\* brk, gc: does the profile hold a breakout, a crossover?  The bars before
\* the latest one lay on the far side when it does, on the near side when not.

AssetSeries ==
    {[t EXCEPT !.pos = i.pos, !.tak = i.tak, !.cap = i.cap, !.bull = i.bull,
               !.cloud_before = [k \in 1..LOOKBACK |-> (i.pos = "above") /\ ~i.brk],
               !.cross_before = [k \in 1..LOOKBACK |-> i.tak /\ ~i.gc]] :
        t \in TechnicalProfiles, i \in IchimokuProfiles}
    \cup {[BullishSeries EXCEPT !.len = 20], [BullishSeries EXCEPT !.len = 100],
          [BullishSeries EXCEPT !.ok = FALSE]}

\* ROE 25, margin 25, leverage 25, capex 20
StrongFd ==
    [valid |-> TRUE, price_ok |-> TRUE, roe |-> <<22, 22, 22, 22, 22>>,
     gpm |-> <<50, 50, 50>>, total_debt |-> 40, total_equity |-> 100, net_income |-> 20,
     capex |-> <<[ratio |-> 10, pos |-> TRUE], [ratio |-> 10, pos |-> TRUE]>>]

\* ROE 0, margin 5, leverage 10, capex 0: every analyzer answers, none clears
WeakFd ==
    [valid |-> TRUE, price_ok |-> TRUE, roe |-> <<22, 16, 8>>,
     gpm |-> <<50, 42, 30>>, total_debt |-> 100, total_equity |-> 100, net_income |-> 0,
     capex |-> <<[ratio |-> 10, pos |-> TRUE], [ratio |-> 60, pos |-> TRUE]>>]

\* ROE 25; no margin or capex history; leverage 10
MixedFd ==
    [valid |-> TRUE, price_ok |-> TRUE, roe |-> <<22, 22, 22, 22, 22>>,
     gpm |-> <<>>, total_debt |-> 100, total_equity |-> 100, net_income |-> 0,
     capex |-> <<>>]

AssetFds ==
    {StrongFd, WeakFd, MixedFd, [BaselineFd EXCEPT !.valid = FALSE],
     [StrongFd EXCEPT !.price_ok = FALSE]}

Stock(t, d, f) == [ticker |-> t, df |-> d, fd |-> f]

Assets ==
    {Stock(1, d, f) : d \in AssetSeries, f \in {StrongFd, [BaselineFd EXCEPT !.valid = FALSE]}}
    \cup {Stock(1, d, f) :
            d \in {BaselineSeries, BullishSeries, [BullishSeries EXCEPT !.len = 20]},
            f \in AssetFds}

FilterNames == KNOWN_FILTERS \cup {"other"}

\* every list of known names, and lists holding a name no branch matches
FilterLists ==
    (SUBSET KNOWN_FILTERS)
    \cup {{"other"}, {"other", "ichimoku"}, {"other", "bollinger"}, {"other", "roe"}}

Thresholds == {<<50, FALSE>>, <<80, FALSE>>, <<80, TRUE>>}

InitAsset ==
    /\ IdleRequest
    /\ IdleAnalyzer
    /\ \E a \in Assets : us_stocks = <<a>>
    /\ kr_stocks = <<>>

ScreenAsset ==
    \E fl \in FilterLists, mode \in {"any", "all"}, th \in Thresholds :
        RunScreening("US", th[1], th[2], 1, fl, mode)

NextAsset == ScreenAsset

SpecAsset == InitAsset /\ [][NextAsset]_vars

(***************************************************************************)
(* Specification SpecBatch: a universe of several tickers in two markets   *)
(***************************************************************************)
NumTickers == 4        \* most tickers in the universe

\* TechnicalService.analyze_stocks_batch: results are appended in completion
\* order (order[i] is the i-th future to complete); a raising future's
\* exception leaves through future.result()
Technical_analyze_stocks_batch(stocks_data, fl, order) ==
    LET outs == [i \in 1..Len(stocks_data) |->
                   Technical_analyze_stock(stocks_data[order[i]].df, fl)]
    IN IF \E i \in 1..Len(stocks_data) : outs[i] = Exception
       THEN [raised |-> TRUE, signals |-> <<>>]
       ELSE [raised |-> FALSE, signals |-> SelectSeq(outs, IsPresent)]

\* FundamentalService.analyze_stocks_batch: each future.result() is guarded
Fundamental_analyze_stocks_batch(stocks, fl, order) ==
    LET outs == [i \in 1..Len(stocks) |->
                   Fundamental_analyze_stock_by_ticker(stocks[order[i]].fd, fl)]
    IN [raised |-> FALSE, signals |-> SelectSeq(outs, IsPresent)]

RunBatch(name, r, fl) ==
    /\ op = "init"
    /\ op' = name
    /\ filters' = fl
    /\ raised' = r.raised
    /\ signals' = r.signals
    /\ UNCHANGED <<combine_mode, min_score, perfect_only, limit, market,
                   strong_buy, buy, weak_buy>>
    /\ UNCHANGED <<us_stocks, kr_stocks, series, fdata, analyzer, result>>
    /\ UNCHANGED <<screening_results, screening_date>>

\* trend-cloud 35 (above cloud, short pivot above medium, nothing else);
\* volatility-band 45
ModestSeries ==
    [BaselineSeries EXCEPT !.pos = "above", !.tak = TRUE, !.pct = 15, !.vol = 20,
                           !.cloud_before = [i \in 1..LOOKBACK |-> TRUE],
                           !.cross_before = [i \in 1..LOOKBACK |-> TRUE]]

\* trend-cloud 65 with the perfect condition; volatility-band 45
PerfectSeries ==
    [BaselineSeries EXCEPT !.pos = "above", !.tak = TRUE, !.cap = TRUE,
                           !.pct = 15, !.vol = 20,
                           !.cloud_before = [i \in 1..LOOKBACK |-> TRUE],
                           !.cross_before = [i \in 1..LOOKBACK |-> TRUE]]

\* a frame without a usable Close column and a record whose price is no number
MalformedSeries == [BullishSeries EXCEPT !.ok = FALSE]
MalformedFd == [StrongFd EXCEPT !.price_ok = FALSE]

BatchProfiles ==
    { [df |-> BullishSeries, fd |-> StrongFd],
      [df |-> PerfectSeries, fd |-> MixedFd],
      [df |-> ModestSeries, fd |-> WeakFd],
      [df |-> MalformedSeries, fd |-> MalformedFd] }

BatchFilterLists ==
    { {"ichimoku"}, {"ichimoku", "bollinger", "ma_alignment", "cup_handle"},
      {"bollinger"}, {"roe"} }

Universe(profiles) ==
    [i \in 1..Len(profiles) |-> Stock(i, profiles[i].df, profiles[i].fd)]

InitBatch ==
    /\ IdleRequest
    /\ IdleAnalyzer
    /\ \E n \in 0..NumTickers :
         \E profiles \in [1..n -> BatchProfiles], k \in 0..n :
            /\ us_stocks = SubSeq(Universe(profiles), 1, k)
            /\ kr_stocks = SubSeq(Universe(profiles), k + 1, n)

ScreenBatch ==
    \E fl \in BatchFilterLists, mode \in {"any", "all"},
       mkt \in {"US", "KR", "ALL"}, lim \in {1, 2} :
        RunScreening(mkt, 50, FALSE, lim, fl, mode)

TechnicalBatch ==
    \E fl \in {{"bollinger"}, {"bollinger", "ma_alignment", "cup_handle"}},
       order \in CompletionOrders(Len(us_stocks \o kr_stocks)) :
        RunBatch("technical_batch",
                 Technical_analyze_stocks_batch(us_stocks \o kr_stocks, fl, order), fl)

FundamentalBatch ==
    \E fl \in {{"roe"}, FUNDAMENTAL_FILTERS},
       order \in CompletionOrders(Len(us_stocks \o kr_stocks)) :
        RunBatch("fundamental_batch",
                 Fundamental_analyze_stocks_batch(us_stocks \o kr_stocks, fl, order), fl)

NextBatch ==
    \/ ScreenBatch
    \/ TechnicalBatch
    \/ FundamentalBatch

SpecBatch == InitBatch /\ [][NextBatch]_vars

(***************************************************************************)
(* Persistence of scan results (ScreeningService.save_screening_results)   *)
(* The table is the set of its rows; a row is a function of the column     *)
(* names below (id and created_at, which no save sets, are left out).      *)
(***************************************************************************)
\* the signal attributes bound to the INSERT, in the order of its columns
\* after screening_date
SIGNAL_COLUMNS ==
    {"ticker", "name", "market", "current_price", "signal_strength", "score",
     "price_above_cloud", "tenkan_above_kijun", "chikou_above_price",
     "cloud_bullish", "cloud_breakout", "golden_cross", "avg_trading_value",
     "ichimoku_disparity", "ichimoku_disparity_score", "bollinger_score",
     "ma_alignment_score", "cup_handle_score", "total_technical_score",
     "roe_score", "gpm_score", "debt_score", "capex_score",
     "total_fundamental_score"}

\* the columns of ON CONFLICT(screening_date, ticker) DO UPDATE SET
UPDATE_COLUMNS ==
    {"current_price", "signal_strength", "score",
     "price_above_cloud", "tenkan_above_kijun", "chikou_above_price",
     "cloud_bullish", "cloud_breakout", "golden_cross", "avg_trading_value",
     "ichimoku_disparity", "ichimoku_disparity_score", "bollinger_score",
     "ma_alignment_score", "cup_handle_score", "total_technical_score",
     "roe_score", "gpm_score", "debt_score", "capex_score",
     "total_fundamental_score"}

\* strftime("%Y-%m-%d"): year, month and day in this order
format_date_for_db(d) == <<d.year, d.month, d.day>>

\* the values bound to one INSERT
excluded_row(signal, d) ==
    [c \in SIGNAL_COLUMNS \cup {"screening_date"} |->
        IF c = "screening_date" THEN format_date_for_db(d) ELSE signal[c]]

\* INSERT ... ON CONFLICT(screening_date, ticker) DO UPDATE SET ...
upsert(table, excluded) ==
    LET conflict == {r \in table : r["screening_date"] = excluded["screening_date"]
                                   /\ r["ticker"] = excluded["ticker"]}
    IN IF conflict = {} THEN table \cup {excluded}
       ELSE (table \ conflict)
            \cup {[c \in DOMAIN r |-> IF c \in UPDATE_COLUMNS THEN excluded[c] ELSE r[c]] :
                     r \in conflict}

\* for signal in signals: cursor.execute(...); a signal that lacks one of the
\* attributes read ends the loop with an exception
RECURSIVE execute_all(_, _, _)
execute_all(table, batch, d) ==
    IF batch = <<>> THEN [raised |-> FALSE, table |-> table]
    ELSE IF ~Head(batch).ok THEN [raised |-> TRUE, table |-> table]
    ELSE execute_all(upsert(table, excluded_row(Head(batch), d)), Tail(batch), d)

\* save_screening_results: the commit is reached only when every execute
\* went through; closing the connection drops what was not committed
save_screening_results(table, batch, d) ==
    LET done == execute_all(table, batch, d)
    IN IF done.raised THEN [raised |-> TRUE, table |-> table] ELSE done

(***************************************************************************)
(* Specification SpecCup: the chart-pattern analyzer on engineered bars    *)
(***************************************************************************)
U_SPAN == 90           \* bars between the left and the right peak
U_PEAK == 100          \* close on the left peak
PRE_LEVEL == 80        \* close before the left peak
U_LEAD == 30           \* bars before the left peak in the shortest series
U_TAIL == 8            \* how far the closes after the right peak lie below it

\* the close k bars after the left peak of a U that falls from U_PEAK to
\* bottom at mid-span and rises to right at k = U_SPAN, along two parabola
\* halves
u_close(k, bottom, right) ==
    LET half == U_SPAN \div 2
        d == (half - k) * (half - k)
    IN IF k <= half
       THEN bottom + ((U_PEAK - bottom) * d) \div (half * half)
       ELSE bottom + ((right - bottom) * d) \div (half * half)

\* n bars: a level stretch, the U starting at index p0, then a stretch tail
\* below the right peak; High and Low lie wick above and below the close
UBars(n, p0, pre, depth, right, wick, tail) ==
    LET close(i) == IF i < p0 THEN pre
                    ELSE IF i <= p0 + U_SPAN
                    THEN u_close(i - p0, U_PEAK - depth, right)
                    ELSE right - tail
    IN [[BaselineSeries EXCEPT !.len = n] EXCEPT !.vol = 10] @@
       [highs |-> [i \in 1..n |-> close(i - 1) + wick],
        closes |-> [i \in 1..n |-> close(i - 1)],
        lows |-> [i \in 1..n |-> close(i - 1) - wick],
        p0 |-> p0, depth |-> depth, right |-> right]

CupBarsInputs ==
    {UBars(n, (n - CupHandle_min_data_length) + U_LEAD, PRE_LEVEL, depth, right, wick, U_TAIL) :
        n \in {CupHandle_min_data_length, MaxLen}, depth \in {10, 15, 25, 40, 41},
        right \in {89, 100, 110}, wick \in {0, 1}}
    \union
    \* the ideal U with its left peak on the one bar that only the window of
    \* start offset CUP_MAX_DURATION + CUP_SEARCH_MARGIN reaches
    {UBars(MaxLen,
           MaxLen - (CUP_MAX_DURATION + CUP_SEARCH_MARGIN) - 1 - LEFT_REGION_BEFORE,
           PRE_LEVEL, IDEAL_DEPTH, U_PEAK, 0, U_TAIL)}
    \union
    \* the ideal U ending U_LEAD or 2 bars before the latest bar, followed by a
    \* pullback of tail and a latest bar closing at last, on plain or doubled
    \* volume
    {LET bars == UBars(CupHandle_min_data_length, p[1], PRE_LEVEL, IDEAL_DEPTH,
                       U_PEAK, 0, tail)
     IN [bars EXCEPT !.vol = p[2],
                     !.closes[bars.len] = last,
                     !.highs[bars.len] = last,
                     !.lows[bars.len] = last] :
        p \in {<<U_LEAD, 10>>, <<U_LEAD, 20>>,
               <<CupHandle_min_data_length - U_SPAN - 3, 10>>},
        tail \in {U_TAIL \div 2, U_TAIL, 2 * U_TAIL},
        last \in {U_PEAK - U_TAIL, U_PEAK - 2, U_PEAK}}

InitCup ==
    /\ IdleScanner
    /\ analyzer = "none"
    /\ result = None
    /\ series \in CupBarsInputs
    /\ fdata = BaselineFd

RunCupHandleBars == Apply("cup_handle", CupHandle_analyze_bars(series))

SpecCup == InitCup /\ [][RunCupHandleBars]_vars

(***************************************************************************)
(* Specification SpecBands: the volatility-band analyzer on concrete bars  *)
(***************************************************************************)
FLAT_LEN == 200        \* bars of the long series
BAND_BASE == 10        \* the close of a calm bar
LULL == 26             \* bars of the calm stretch of shape "lull"

\* n bars closing at BAND_BASE, except that the odd bars before the last k
\* (shape "calm"), all of the last k bars (shape "jump") or the odd bars
\* outside a stretch of LULL bars ending k bars before the last (shape
\* "lull") close a higher; the volume is 10 on every bar but the last, which
\* has 10 * m
BandBars(n, shape, a, k, m) ==
    [[BaselineSeries EXCEPT !.len = n] EXCEPT !.vol = 10] @@
    [closes |-> [i \in 1..n |->
                    IF shape = "calm"
                    THEN (IF i <= n - k /\ i % 2 = 1 THEN BAND_BASE + a ELSE BAND_BASE)
                    ELSE IF shape = "jump"
                    THEN (IF i > n - k THEN BAND_BASE + a ELSE BAND_BASE)
                    ELSE (IF (i <= n - k - LULL \/ i > n - k) /\ i % 2 = 1
                          THEN BAND_BASE + a ELSE BAND_BASE)],
     volumes |-> [i \in 1..n |-> IF i = n THEN 10 * m ELSE 10]]

BandBarsInputs ==
    {BandBars(n, shape, a, k, m) :
        n \in {Bollinger_min_samples + BB_PERIOD - 2, Bollinger_min_data_length - 1,
               Bollinger_min_data_length, FLAT_LEN},
        shape \in {"calm", "jump", "lull"}, a \in {0, 1, 2}, k \in {1, 3, 10, 30},
        m \in {1, 2, 3, 4}}

InitBands ==
    /\ IdleScanner
    /\ analyzer = "none"
    /\ result = None
    /\ series \in BandBarsInputs
    /\ fdata = BaselineFd

RunBollingerBars == Apply("bollinger", Bollinger_analyze_bars(series))

\* MAAlignmentAnalyzer.analyze on concrete bars
RunMAAlignmentBars ==
    Apply("ma_alignment",
          IF ~has_sufficient_data(series, MAAlignment_min_data_length) THEN None
          ELSE MAAlignment_analyze(ma_reading(series)))

SpecBands == InitBands /\ [][RunBollingerBars \/ RunMAAlignmentBars]_vars

(***************************************************************************)
(* Specification SpecSave: scan results saved again and again              *)
(***************************************************************************)
NumSaved == 2          \* most signals handed to one save

\* a StockSignal as save_screening_results reads it: version 1 and version 2
\* of a ticker differ in the name and in every value a later scan can change
SavedSignal(ticker, version) ==
    [ok |-> TRUE, ticker |-> ticker,
     name |-> IF version = 1 THEN "Old Name" ELSE "New Name",
     market |-> "US",
     current_price |-> 10 * version,
     signal_strength |-> IF version = 1 THEN "WEAK_BUY" ELSE "STRONG_BUY",
     score |-> 35 * version,
     price_above_cloud |-> version = 2, tenkan_above_kijun |-> version = 2,
     chikou_above_price |-> version = 2, cloud_bullish |-> version = 2,
     cloud_breakout |-> version = 2, golden_cross |-> version = 2,
     avg_trading_value |-> 1000 * version,
     ichimoku_disparity |-> 3 * version, ichimoku_disparity_score |-> 5 * version,
     bollinger_score |-> 20 * version, ma_alignment_score |-> 25 * version,
     cup_handle_score |-> 25 * version, total_technical_score |-> 70 * version,
     roe_score |-> 10 * version, gpm_score |-> 10 * version,
     debt_score |-> 5 * version, capex_score |-> 5 * version,
     total_fundamental_score |-> 30 * version]

SavedSignals ==
    {SavedSignal(t, v) : t \in {"AAA", "BBB"}, v \in {1, 2}}
    \cup {[SavedSignal("AAA", 1) EXCEPT !.ok = FALSE]}

\* the services after construction, the table empty
InitServices ==
    /\ IdleRequest
    /\ IdleAnalyzer
    /\ us_stocks = <<>> /\ kr_stocks = <<>>

\* ScreeningService.save_screening_results(signals, screening_date), the date
\* given or today's
SaveScreeningResults ==
    \E batch \in SeqsUpTo(SavedSignals, NumSaved),
       d \in {[year |-> 2025, month |-> 1, day |-> 2],
              [year |-> 2025, month |-> 1, day |-> 3]} :
        \E r \in {save_screening_results(screening_results, batch, d)} :
            /\ op' = "save_screening_results"
            /\ signals' = batch
            /\ screening_date' = d
            /\ raised' = r.raised
            /\ screening_results' = r.table
            /\ UNCHANGED <<filters, combine_mode, min_score, perfect_only, limit, market,
                           us_stocks, kr_stocks, strong_buy, buy, weak_buy,
                           series, fdata, analyzer, result>>

SpecSave == InitServices /\ [][SaveScreeningResults]_vars

(***************************************************************************)
(* Specification SpecCalls: the per-asset aggregators called one asset     *)
(* after the other on the same service objects                             *)
(***************************************************************************)
MaxCalls == 3          \* calls in a row

\* what a TechnicalService and a FundamentalService object hold from one call
\* to the next: the class-level score tables (the analyzers they own hold
\* constants only)
ServiceTables ==
    [BONUS_SCORES |-> [bollinger |-> BONUS_bollinger, ma_alignment |-> BONUS_ma_alignment,
                       cup_handle |-> BONUS_cup_handle, fundamental |-> Fundamental_BONUS],
     SCORE_THRESHOLDS |-> [bollinger |-> SCORE_THRESHOLD_bollinger,
                           ma_alignment |-> SCORE_THRESHOLD_ma_alignment,
                           cup_handle |-> SCORE_THRESHOLD_cup_handle,
                           roe |-> SCORE_THRESHOLD_roe, gpm |-> SCORE_THRESHOLD_gpm,
                           debt |-> SCORE_THRESHOLD_debt, capex |-> SCORE_THRESHOLD_capex]]

\* a pair of calls that leaves a trace on the service objects: every call
\* raises an entry of the bonus table
analyze_stock_leaving_trace(self, stock, fl) ==
    [self |-> [self EXCEPT !.BONUS_SCORES.bollinger = @ + 1],
     df |-> stock.df, fd |-> stock.fd, fl |-> fl,
     technical |-> Technical_analyze_stock(stock.df, fl),
     fundamental |-> Fundamental_analyze_stock(stock.fd, fl)]

\* TechnicalService.analyze_stock and FundamentalService.analyze_stock on one
\* asset: neither assigns to self or to a class attribute, so the objects
\* are after the calls what they were before
analyze_stock_calls(self, stock, fl) ==
    [self |-> self,
     df |-> stock.df, fd |-> stock.fd, fl |-> fl,
     technical |-> Technical_analyze_stock(stock.df, fl),
     fundamental |-> Fundamental_analyze_stock(stock.fd, fl)]

AnalyzeStock ==
    /\ Len(signals) < MaxCalls
    /\ \E profile \in BatchProfiles,
          fl \in {{"bollinger", "ma_alignment", "cup_handle", "roe", "gpm", "debt", "capex"},
                  {"bollinger", "roe"}, {"cup_handle", "debt", "capex"}} :
          signals' = Append(signals,
                        analyze_stock_calls(
                            IF signals = <<>> THEN ServiceTables
                            ELSE signals[Len(signals)].self,
                            Stock(Len(signals) + 1, profile.df, profile.fd), fl))
    /\ op' = "analyze_stock"
    /\ UNCHANGED <<filters, combine_mode, min_score, perfect_only, limit, market,
                   us_stocks, kr_stocks, raised, strong_buy, buy, weak_buy,
                   series, fdata, analyzer, result, screening_results, screening_date>>

SpecCalls == InitServices /\ [][AnalyzeStock]_vars

(***************************************************************************)
(* Claims on the analyzers (checked under SpecAnalyzers)                   *)
(***************************************************************************)
InRange(x, lo, hi) == lo <= x /\ x <= hi

\* C9: whatever condition flags an analyzer derives, the score it produces
\* stays in its documented range: trend-cloud in [-100, 100], MA-alignment in
\* [-100, 95], volatility-band in [0, 80], capital-expenditure in [0, 20].
C9_ScoreRanges ==
    result.present =>
        /\ analyzer = "ichimoku" => InRange(result.score, -100, 100)
        /\ analyzer = "ma_alignment" => InRange(result.score, -100, 95)
        /\ analyzer = "bollinger" => InRange(result.score, 0, 80)
        /\ analyzer = "capex" => InRange(result.score, 0, 20)

\* the trend-cloud analyzer ran on a series whose six bullish conditions all
\* hold (raw sum 105) and answered the clamped 100
C9_Witness ==
    /\ analyzer = "ichimoku"
    /\ result.present
    /\ result.price_above_cloud /\ result.tenkan_above_kijun
    /\ result.chikou_above_price /\ result.cloud_bullish
    /\ result.cloud_breakout /\ result.golden_cross
    /\ result.score = 100

Ichimoku_min_length == SENKOU_B_PERIOD + DISPLACEMENT + 5

\* C10: an analyzer handed a price series shorter than its minimum length
\* (volatility-band 60, MA-alignment 130, chart-pattern 150, trend-cloud
\* 52 + 26 + 5) returns null, never a signal carrying a default score.
C10_ShortSeriesNull ==
    /\ (analyzer = "bollinger" /\ series.len < 60) => result = None
    /\ (analyzer = "ma_alignment" /\ series.len < 130) => result = None
    /\ (analyzer = "cup_handle" /\ series.len < 150) => result = None
    /\ (analyzer = "ichimoku" /\ series.len < Ichimoku_min_length) => result = None

\* the volatility-band analyzer ran on a well-formed, bullish series one bar
\* short of its minimum and answered null
C10_Witness ==
    /\ analyzer = "bollinger"
    /\ series.ok
    /\ series.pct <= STRONG_SQUEEZE_PERCENTILE
    /\ series.len = Bollinger_min_data_length - 1
    /\ result = None

AllLinesDefined(df) ==
    tenkan_defined(df) /\ kijun_defined(df) /\ senkou_a_defined(df) /\ senkou_b_defined(df)

\* C11: the trend-cloud analyzer answers null exactly when the series is
\* shorter than 78 bars or a pivot line or projection band is undefined on
\* the latest bar.
C11_MinLength78 ==
    analyzer = "ichimoku" =>
        (result = None <=> (series.len < 78 \/ ~AllLinesDefined(series)))

\* C11 as amended: the minimum is 83 bars (52 + 26 + 5), and a failure inside
\* the analysis (a frame without usable columns) is answered with null too.
C11_MinLength83 ==
    analyzer = "ichimoku" =>
        (result = None <=>
            (series.len < 83 \/ ~AllLinesDefined(series) \/ ~series.ok))

\* a well-formed series of exactly 83 bars with every line defined is
\* answered with a signal
C11_Witness ==
    /\ analyzer = "ichimoku"
    /\ series.len = 83 /\ series.ok /\ AllLinesDefined(series)
    /\ result.present
    /\ result.score = 100

C14_BreakoutExclusive ==
    (analyzer = "cup_handle" /\ result.present /\ result.cup_detected) =>
        /\ series.prc >= 100 =>
              result.breakout_confirmed /\ ~result.breakout_imminent
        /\ (series.prc >= 97 /\ series.prc < 100) =>
              result.breakout_imminent /\ ~result.breakout_confirmed
        /\ series.prc < 97 =>
              ~result.breakout_imminent /\ ~result.breakout_confirmed

\* within the latest 5 bars a comparison that did not hold on one bar held
\* on the next; before lists the 5 bars before the latest one, oldest first
TurnedTrueWithin5(before, latest) ==
    \/ ~before[5] /\ latest
    \/ \E i \in 1..4 : ~before[i] /\ before[i + 1]

\* P + T + L + C + B + X of the trend-cloud score, read off the series
DocumentedCloudSum(df) ==
    (IF df.pos = "above" THEN 30 ELSE IF df.pos = "inside" THEN 10 ELSE -20)
    + (IF df.tak THEN 20 ELSE -10)
    + (IF df.cap THEN 20 ELSE -10)
    + (IF df.bull THEN 10 ELSE -5)
    + (IF TurnedTrueWithin5(df.cloud_before, df.pos = "above") THEN 15 ELSE 0)
    + (IF TurnedTrueWithin5(df.cross_before, df.tak) THEN 10 ELSE 0)

\* C23: the trend-cloud score is P + T + L + C + B + X clamped to
\* [-100, 100]: P = +30 above the cloud, +10 inside, -20 below; T = +20 / -10
\* by short pivot above medium pivot; L = +20 / -10 by close above the close 26
\* bars before; C = +10 / -5 by a bullish cloud; B = +15 when the close went
\* from <= cloud top to > cloud top between two consecutive bars within the
\* latest 5; X = +10 when the short pivot crossed above the medium one within
\* the latest 5.
C23_CloudScoreIsDocumentedSum ==
    (analyzer = "ichimoku" /\ result.present) =>
        result.score = Max(-100, Min(100, DocumentedCloudSum(series)))

\* a series now below the cloud whose close broke above it three bars ago
\* and fell back: -20 - 10 - 10 - 5 + 15
C23_Witness ==
    /\ analyzer = "ichimoku"
    /\ result.present
    /\ series.pos = "below" /\ ~series.tak /\ ~series.cap /\ ~series.bull
    /\ ~series.cloud_before[2] /\ series.cloud_before[3]
    /\ \A i \in 1..5 : ~series.cross_before[i]
    /\ result.cloud_breakout /\ ~result.golden_cross
    /\ result.score = -30

RoeLevel(h) ==
    IF h[Len(h)] >= 20 THEN 15 ELSE IF h[Len(h)] >= 15 THEN 10
    ELSE IF h[Len(h)] >= 10 THEN 5 ELSE 0

RoeConsistency(h) ==
    IF Len(h) < 5 THEN 0
    ELSE IF StdAtMost(h, 3) THEN 10 ELSE IF StdAtMost(h, 5) THEN 5 ELSE 0

RoeTrend(h) ==
    IF h[Len(h)] - h[Len(h) - 2] > 2 THEN 5
    ELSE IF h[Len(h) - 2] - h[Len(h)] > 2 THEN -5 ELSE 0

\* C17 as stated: with fewer than 3 years the answer is null; otherwise the
\* score is level + consistency + trend limited to at most 30, and the
\* history [8, 9, 10, 11, 30] scores 20.
C17_RoeScoreCappedOnly ==
    (analyzer = "roe" /\ fdata.valid) =>
        /\ result = None <=> Len(fdata.roe) < 3
        /\ result.present =>
              result.score = Min(RoeLevel(fdata.roe) + RoeConsistency(fdata.roe)
                                 + RoeTrend(fdata.roe), 30)
        /\ fdata.roe = <<8, 9, 10, 11, 30>> => result.present /\ result.score = 20

\* C17, amended: with fewer than 3 years the answer is null; otherwise the
\* score is level + consistency + trend limited to the range 0..30, and the
\* history [8, 9, 10, 11, 30] scores 20.
C17_RoeScoreClamped ==
    (analyzer = "roe" /\ fdata.valid) =>
        /\ result = None <=> Len(fdata.roe) < 3
        /\ result.present =>
              result.score = Max(0, Min(RoeLevel(fdata.roe) + RoeConsistency(fdata.roe)
                                        + RoeTrend(fdata.roe), 30))
        /\ fdata.roe = <<8, 9, 10, 11, 30>> => result.present /\ result.score = 20

\* the history of the example was scored: level 15, no consistency, trend +5
C17_Witness ==
    /\ analyzer = "roe"
    /\ fdata.valid /\ fdata.roe = <<8, 9, 10, 11, 30>>
    /\ result.present /\ result.score = 20 /\ result.trend_score = 5
    /\ ~result.is_consistent

\* L + R of the leverage score: debt / equity in percent against 200, 50,
\* 100, 150 (an equity of zero or less reads as a ratio above 200%), net
\* income / debt in percent against 20 and 10 (0 unless both are positive)
DocumentedLeverageSum(data) ==
    LET debt == data.total_debt
        equity == data.total_equity
        income == data.net_income
    IN (IF equity <= 0 \/ 100 * debt > 200 * equity THEN -10
        ELSE IF 100 * debt <= 50 * equity THEN 15
        ELSE IF 100 * debt <= 100 * equity THEN 10
        ELSE IF 100 * debt <= 150 * equity THEN 5
        ELSE 0)
       + (IF debt > 0 /\ income > 0 /\ 100 * income >= 20 * debt THEN 10
          ELSE IF debt > 0 /\ income > 0 /\ 100 * income >= 10 * debt THEN 5
          ELSE 0)

\* K of the capital-expenditure score, ratio being capex / net income in
\* percent
DocumentedCapexLevel(ratio) ==
    IF ratio >= 50 THEN -10
    ELSE IF ratio < 15 THEN 15
    ELSE IF ratio < 25 THEN 10
    ELSE IF ratio < 35 THEN 5
    ELSE 0

\* C26: the leverage score is clamp(L + R, 0, 25) and the capital-expenditure
\* score is clamp(K + stability, 0, 20), the penalty tier of L and of K
\* excluding their positive tiers: L = -10 above 200% debt / equity, else
\* +15 / +10 / +5 up to 50% / 100% / 150%; R = +10 from 20% net income / debt,
\* else +5 from 10%; K = -10 from 50% capex / net income, else +15 / +10 / +5
\* below 15% / 25% / 35%.
C26_LeverageAndCapexScores ==
    /\ (analyzer = "debt" /\ result.present) =>
          /\ result.score = Max(0, Min(25, DocumentedLeverageSum(fdata)))
          /\ result.debt_above_200 =>
                ~(result.debt_below_50 \/ result.debt_below_100 \/ result.debt_below_150)
    /\ (analyzer = "capex" /\ result.present) =>
          /\ result.score
                 = Max(0, Min(20, DocumentedCapexLevel(result.capex_to_income_ratio)
                                  + (IF result.is_stable THEN 5 ELSE 0)))
          /\ result.capex_above_50 =>
                ~(result.capex_below_15 \/ result.capex_below_25 \/ result.capex_below_35)

\* a debt of 250% of the equity, repaid by the net income within 5 years:
\* -10 + 10
C26_Witness ==
    /\ analyzer = "debt"
    /\ result.present
    /\ fdata.total_equity > 0
    /\ result.debt_above_200 /\ result.can_repay_in_5_years
    /\ result.score = 0

\* a capital expenditure of 60% of the net income, stable: -10 + 5 floored
C26_CapexFloorSeen ==
    /\ analyzer = "capex"
    /\ result.present
    /\ result.capex_above_50 /\ result.is_stable
    /\ result.score = 0

\* the current ratio lies within 20% of the average of the ratios
WithinFifthOfAverage(ratios) ==
    Abs(ratios[Len(ratios)] * Len(ratios) - SumSeq(ratios)) * 5 <= SumSeq(ratios)

\* C27: the stability bonus of the capital-expenditure analyzer is awarded
\* iff the ratio of the most recent year deviates by at most 20% from the
\* average of the ratios of its trailing three years; fewer than three years
\* of ratios do not earn it.
C27_StableIffWithinThreeYearAverage ==
    (analyzer = "capex" /\ result.present) =>
        (result.is_stable <=>
            /\ Len(ratio_history(fdata.capex)) >= 3
            /\ WithinFifthOfAverage(LastN(ratio_history(fdata.capex), 3)))

(***************************************************************************)
(* Claims on the volatility bands (checked under SpecBands)                *)
(***************************************************************************)
\* every bar has the same close and the same volume
Flat(bars) ==
    \A i \in 1..bars.len :
        bars.closes[i] = bars.closes[1] /\ bars.volumes[i] = bars.volumes[1]

\* C15: for a flat series of 200 bars (constant close, constant volume) the
\* volatility-band analyzer answers with a signal whose is_squeeze is false
\* and whose score is 0.
C15_FlatIsNoSqueeze ==
    (analyzer = "bollinger" /\ series.len = FLAT_LEN /\ Flat(series)) =>
        result.present /\ ~result.is_squeeze /\ result.score = 0

\* the bars among the latest 60 that have a band-width (20 closes behind them)
BandWidthSamples(bars) ==
    {i \in Max(1, bars.len - 59)..bars.len : i >= 20}

\* the current band-width lies in the bottom pct percent of its samples: at
\* most pct percent of them are strictly narrower
InBottom(bars, pct) ==
    100 * Cardinality({i \in BandWidthSamples(bars) : narrower(bars.closes, i, bars.len)})
        <= pct * Cardinality(BandWidthSamples(bars))

\* S + V + B of the volatility-band score, read off the bars; the %-position
\* (close - lower) / (upper - lower) is >= 0.8 when close - middle is at least
\* 1.2 standard deviations (19 * 20 * std^2 = spread / 20)
DocumentedBandSum(bars) ==
    LET n == bars.len
        volume20 == rolling_sum(bars.volumes, n, 20)          \* 20 * average
        d == 20 * bars.closes[n] - rolling_sum(bars.closes, n, 20)
    IN (IF InBottom(bars, 10) THEN 35 ELSE IF InBottom(bars, 20) THEN 25 ELSE 0)
       + (IF 20 * bars.volumes[n] >= 3 * volume20 THEN 30
          ELSE IF 20 * bars.volumes[n] >= 2 * volume20 THEN 20 ELSE 0)
       + (IF spread(bars.closes, n) > 0 /\ d >= 0
             /\ 95 * d * d >= 144 * spread(bars.closes, n) THEN 15 ELSE 0)

\* C25: the volatility-band score is S + V + B capped at 80: S = +35 in the
\* bottom decile of the trailing 60-bar band-width samples, else +25 in the
\* bottom quintile; V = +30 for a volume of at least 3x its 20-bar average,
\* else +20 for at least 2x; B = +15 for a %-position >= 0.8; with fewer than
\* 30 band-width samples the answer is null.
C25_BandScoreIsDocumentedSum ==
    analyzer = "bollinger" =>
        /\ Cardinality(BandWidthSamples(series)) < 30 => result = None
        /\ result.present =>
               result.score = Min(80, DocumentedBandSum(series))

\* a band-width in the bottom quintile but not the bottom decile, on more
\* than three times the average volume: 25 + 30
C25_Witness ==
    /\ analyzer = "bollinger"
    /\ result.present
    /\ result.is_squeeze /\ ~result.is_strong_squeeze
    /\ result.strong_volume_surge /\ ~result.band_breakout_attempt
    /\ result.score = 55

\* a series with 29 band-width samples was answered with null
C25_FewSamplesSeen ==
    /\ analyzer = "bollinger"
    /\ Cardinality(BandWidthSamples(series)) = 29
    /\ result = None

\* the average of the latest fast closes at bar i is strictly above that of
\* the latest slow closes
AverageAbove(bars, i, fast, slow) ==
    slow * rolling_sum(bars.closes, i, fast) > fast * rolling_sum(bars.closes, i, slow)

\* fast <= slow on one bar and fast > slow on the next, within the latest 5
CrossedWithin5(bars, fast, slow) ==
    \E i \in (bars.len - 4)..bars.len :
        ~AverageAbove(bars, i - 1, fast, slow) /\ AverageAbove(bars, i, fast, slow)

\* A + G + D of the MA-alignment score, read off the bars; the displacement
\* from MA20 is (close - MA20) / MA20
DocumentedAlignmentSum(bars) ==
    LET n == bars.len
        checks == Cardinality({w \in {<<1, 5>>, <<5, 20>>, <<20, 60>>, <<60, 120>>} :
                                  AverageAbove(bars, n, w[1], w[2])})
        ma20 == rolling_sum(bars.closes, n, 20)             \* 20 * MA20
    IN (IF checks = 4 THEN 40 ELSE IF checks >= 3 THEN 25 ELSE 0)
       + (IF CrossedWithin5(bars, 5, 20) THEN 10 ELSE 0)
       + (IF CrossedWithin5(bars, 20, 60) THEN 15 ELSE 0)
       + (IF CrossedWithin5(bars, 60, 120) THEN 20 ELSE 0)
       + (IF 100 * (20 * bars.closes[n] - ma20) > 15 * ma20 THEN -20
          ELSE IF 100 * (20 * bars.closes[n] - ma20) >= 5 * ma20 THEN 10
          ELSE 0)

\* C24: the MA-alignment score is A + G + D clamped to [-100, 95]: A = +40
\* for price > MA5 > MA20 > MA60 > MA120, else +25 when at least 3 of the 4
\* checks hold; G = +10, +15, +20 for a 5-over-20, 20-over-60, 60-over-120
\* golden cross within the latest 5 bars; D = -20 for a displacement from MA20
\* above 15%, else +10 within [5%, 15%]; a flat series of 200 bars scores 0.
C24_AlignmentScoreIsDocumentedSum ==
    /\ (analyzer = "ma_alignment" /\ result.present) =>
           result.score = Max(-100, Min(95, DocumentedAlignmentSum(series)))
    /\ (analyzer = "ma_alignment" /\ series.len = FLAT_LEN /\ Flat(series)) =>
           result.present /\ result.score = 0

\* the latest bar alone closes higher after a flat stretch: full alignment,
\* all three crosses on that bar, displacement within [5%, 15%]: 40 + 45 + 10
C24_Witness ==
    /\ analyzer = "ma_alignment"
    /\ result.present
    /\ result.is_perfect_alignment
    /\ result.golden_cross_5_20 /\ result.golden_cross_20_60
    /\ result.golden_cross_60_120
    /\ result.disparity_optimal
    /\ result.score = 95

\* a flat series of 200 bars was analysed and scored 0
C24_FlatSeen ==
    /\ analyzer = "ma_alignment"
    /\ series.len = FLAT_LEN /\ Flat(series)
    /\ result.present /\ result.score = 0

(***************************************************************************)
(* Claims on the chart-pattern search (checked under SpecCup)              *)
(* The reported dates are the bars' indexes here.                          *)
(***************************************************************************)
\* C13: a series of at least 150 bars holding a U whose closes fall 25% from
\* the left peak and climb back to the same level 90 bars later, inside the
\* search window, is reported with cup_detected true and a depth within one
\* point of 25%.
C13_SymmetricCupDetected ==
    (analyzer = "cup_handle" /\ series.len >= CupHandle_min_data_length
        /\ series.len - series.p0 - 1 < CUP_MAX_DURATION + CUP_SEARCH_MARGIN
        /\ series.depth = IDEAL_DEPTH /\ series.right = U_PEAK) =>
        /\ result.present /\ result.cup_detected
        /\ 100 * (result.left_peak_price - result.cup_bottom_price)
               >= (IDEAL_DEPTH - 1) * result.left_peak_price
        /\ 100 * (result.left_peak_price - result.cup_bottom_price)
               <= (IDEAL_DEPTH + 1) * result.left_peak_price

\* the 25% U with equal peaks 90 bars apart was found where it was put
C13_Witness ==
    /\ analyzer = "cup_handle"
    /\ series.depth = IDEAL_DEPTH /\ series.right = U_PEAK
    /\ result.present /\ result.cup_detected
    /\ result.cup_start_idx = series.p0
    /\ result.cup_end_idx = series.p0 + U_SPAN
    /\ result.left_peak_price = result.right_peak_price
    /\ 100 * (result.left_peak_price - result.cup_bottom_price)
           = IDEAL_DEPTH * result.left_peak_price

\* no close lies more than pct percent below an earlier high
DeepestDipAtMost(bars, pct) ==
    \A i \in 1..bars.len : \A j \in i..bars.len :
        100 * (bars.highs[i] - bars.closes[j]) <= pct * bars.highs[i]

\* C20: every reported cup has its depth (leftPeak - bottom) / leftPeak within
\* [15%, 40%], rightPeak / leftPeak within [0.90, 1.10], its bottom below 90%
\* of each peak and left peak < bottom < right peak in time, the three prices
\* being the bars' at those places; a series whose deepest dip from any high
\* is at most 10% is reported with cup_detected false.
C20_DetectedCupIsWellFormed ==
    analyzer = "cup_handle" =>
        /\ (result.present /\ result.cup_detected) =>
              /\ 100 * (result.left_peak_price - result.cup_bottom_price)
                     >= 15 * result.left_peak_price
              /\ 100 * (result.left_peak_price - result.cup_bottom_price)
                     <= 40 * result.left_peak_price
              /\ 100 * result.right_peak_price >= 90 * result.left_peak_price
              /\ 100 * result.right_peak_price <= 110 * result.left_peak_price
              /\ 10 * result.cup_bottom_price < 9 * result.left_peak_price
              /\ 10 * result.cup_bottom_price < 9 * result.right_peak_price
              /\ result.cup_start_idx < result.cup_bottom_idx
              /\ result.cup_bottom_idx < result.cup_end_idx
              /\ result.left_peak_price = series.highs[result.cup_start_idx + 1]
              /\ result.cup_bottom_price = series.closes[result.cup_bottom_idx + 1]
              /\ result.right_peak_price = series.highs[result.cup_end_idx + 1]
        /\ DeepestDipAtMost(series, 10) =>
              result.present /\ ~result.cup_detected

\* a cup at the very edge of the accepted depth, 15%, was reported
C20_Witness ==
    /\ analyzer = "cup_handle"
    /\ result.present /\ result.cup_detected
    /\ 100 * (result.left_peak_price - result.cup_bottom_price)
           = CUP_MIN_DEPTH * result.left_peak_price
    /\ result.cup_start_idx < result.cup_bottom_idx
    /\ result.cup_bottom_idx < result.cup_end_idx

\* a series that never dips more than 10% was analysed and no cup reported
C20_ShallowSeen ==
    /\ analyzer = "cup_handle"
    /\ DeepestDipAtMost(series, 10)
    /\ result.present /\ ~result.cup_detected

\* the candidates of start offsets 60..last (start_idx = len - offset - 1)
\* that pass every acceptance check
PassingCups(bars, last) ==
    surviving_cups(bars.highs, bars.closes, Len(bars.closes), last + 1)

\* is the pattern score symmetry x depthFit of candidate x strictly greater
\* than that of the reported cup r?
ScoresAbove(x, r) ==
    x.score_num * r.left_peak_price * r.left_peak_price
        > pattern_score_num(r.left_peak_price, r.cup_bottom_price, r.right_peak_price)
          * x.left_peak * x.left_peak

\* is the pattern score of candidate x strictly smaller than that of r?
ScoresBelow(x, r) ==
    x.score_num * r.left_peak_price * r.left_peak_price
        < pattern_score_num(r.left_peak_price, r.cup_bottom_price, r.right_peak_price)
          * x.left_peak * x.left_peak

\* C21 as stated: over start offsets 60..150 and durations 60..130, whenever a
\* candidate passes the acceptance checks a cup is reported, and no passing
\* candidate scores strictly above the reported cup.
C21_BestOfOffsetsTo150 ==
    (analyzer = "cup_handle" /\ result.present) =>
        \A x \in PassingCups(series, CUP_MAX_DURATION + CUP_SEARCH_MARGIN) :
            result.cup_detected /\ ~ScoresAbove(x, result)

\* C21, amended: over start offsets 60..149 (the earliest start is the 150th
\* bar from the end) and durations 60..130, whenever a candidate passes the
\* acceptance checks a cup is reported, and no passing candidate scores
\* strictly above the reported cup.
C21_BestOfOffsetsTo149 ==
    (analyzer = "cup_handle" /\ result.present) =>
        \A x \in PassingCups(series, CUP_MAX_DURATION + CUP_SEARCH_MARGIN - 1) :
            result.cup_detected /\ ~ScoresAbove(x, result)

\* a cup was reported although another candidate, scoring strictly less,
\* passed the acceptance checks too
C21_Witness ==
    /\ analyzer = "cup_handle"
    /\ result.present /\ result.cup_detected
    /\ \E x \in PassingCups(series, CUP_MAX_DURATION + CUP_SEARCH_MARGIN - 1) :
           ScoresBelow(x, result)

\* the lowest Low from the reported cup's end on lies 5% to 15% below the
\* right peak
HandleDepthQualifies(bars, r) ==
    \E i \in (r.cup_end_idx + 1)..bars.len :
        /\ \A j \in (r.cup_end_idx + 1)..bars.len : bars.lows[i] <= bars.lows[j]
        /\ 100 * (r.right_peak_price - bars.lows[i]) >= 5 * r.right_peak_price
        /\ 100 * (r.right_peak_price - bars.lows[i]) <= 15 * r.right_peak_price

\* 25 + (15 if a handle) + (25 if breakout confirmed, else 15 if imminent)
\* + (20 if the volume is at least twice its 20-bar average), capped at 100
DocumentedCupScore(bars, r) ==
    Min(100, 25 + (IF r.handle_detected THEN 15 ELSE 0)
                + (IF r.breakout_confirmed THEN 25
                   ELSE IF r.breakout_imminent THEN 15 ELSE 0)
                + (IF bars.vol >= 20 THEN 20 ELSE 0))

\* C22 as stated: the score is 0 without a cup and the documented sum with
\* one, and a handle is detected iff the lowest Low from the cup's end on is
\* 5% to 15% below the right peak.
C22_ScoreAndHandleByDepth ==
    (analyzer = "cup_handle" /\ result.present) =>
        IF ~result.cup_detected THEN result.score = 0
        ELSE /\ result.score = DocumentedCupScore(series, result)
             /\ result.handle_detected <=> HandleDepthQualifies(series, result)

\* C22, amended: the score is 0 without a cup and the documented sum with
\* one, and a handle is detected iff the cup's end lies more than 5 bars
\* before the latest bar and the lowest Low from the cup's end on is 5% to 15%
\* below the right peak.
C22_ScoreAndHandleWithRoom ==
    (analyzer = "cup_handle" /\ result.present) =>
        IF ~result.cup_detected THEN result.score = 0
        ELSE /\ result.score = DocumentedCupScore(series, result)
             /\ result.handle_detected <=>
                    /\ result.cup_end_idx < series.len - 5
                    /\ HandleDepthQualifies(series, result)

\* a cup with a handle, a confirmed breakout and doubled volume scored
\* 25 + 15 + 25 + 20
C22_Witness ==
    /\ analyzer = "cup_handle"
    /\ result.present /\ result.cup_detected /\ result.handle_detected
    /\ result.breakout_confirmed /\ series.vol >= 20
    /\ result.score = 85

\* a cup ending 2 bars before the latest bar was reported without a handle
\* although the Lows after it dip 5% to 15% below the right peak
C22_NoRoomSeen ==
    /\ analyzer = "cup_handle"
    /\ result.present /\ result.cup_detected /\ ~result.handle_detected
    /\ result.cup_end_idx >= series.len - 5
    /\ HandleDepthQualifies(series, result)

(***************************************************************************)
(* Claims on the saved scan results (checked under SpecSave)               *)
(***************************************************************************)
\* the last signal of the batch for a ticker
LastFor(batch, ticker) ==
    batch[CHOOSE i \in 1..Len(batch) :
              /\ batch[i].ticker = ticker
              /\ \A j \in (i + 1)..Len(batch) : batch[j].ticker # ticker]

\* no two rows share (screening_date, ticker)
OneRowPerKey ==
    \A r1, r2 \in screening_results :
        (r1["screening_date"] = r2["screening_date"] /\ r1["ticker"] = r2["ticker"])
            => r1 = r2

\* C18: after a save there is exactly one row per (screening date, ticker),
\* and the row of every saved ticker holds the values of the most recent
\* save for every persisted field (name, market, price, per-filter scores,
\* total score, trend-cloud flags, tier label).
C18_OneFreshRowPerKey ==
    (op = "save_screening_results" /\ ~raised) =>
        /\ OneRowPerKey
        /\ \A i \in 1..Len(signals) :
              \E r \in screening_results :
                  /\ r["screening_date"] = format_date_for_db(screening_date)
                  /\ r["ticker"] = signals[i].ticker
                  /\ \A c \in SIGNAL_COLUMNS :
                        r[c] = LastFor(signals, signals[i].ticker)[c]

\* the part of C18 that holds: one row per key, fresh in every column the
\* conflict clause updates
C18_FreshInUpdatedColumns ==
    (op = "save_screening_results" /\ ~raised) =>
        /\ OneRowPerKey
        /\ \A i \in 1..Len(signals) :
              \E r \in screening_results :
                  /\ r["screening_date"] = format_date_for_db(screening_date)
                  /\ r["ticker"] = signals[i].ticker
                  /\ \A c \in UPDATE_COLUMNS :
                        r[c] = LastFor(signals, signals[i].ticker)[c]

\* the part of C18 that holds: saving the same results for the same date
\* again leaves the table unchanged
C18_SameSaveTwice ==
    [][(op = "save_screening_results" /\ signals' = signals
        /\ screening_date' = screening_date /\ ~raised)
          => screening_results' = screening_results]_vars

Done == op = "run_screening"
Asset == us_stocks[1]
Kept == Done /\ ~raised /\ Len(signals) = 1
KeptSignal == signals[1]

RawSignal(f) ==
    CASE f = "ichimoku" -> Ichimoku_analyze_signal(Asset.df)
      [] f = "bollinger" -> Bollinger_analyze(Asset.df)
      [] f = "ma_alignment" -> MAAlignment_analyze(Asset.df)
      [] f = "cup_handle" -> CupHandle_analyze(Asset.df)
      [] f = "roe" -> ROE_analyze(Asset.fd)
      [] f = "gpm" -> GPM_analyze(Asset.fd)
      [] f = "debt" -> Debt_analyze(Asset.fd)
      [] f = "capex" -> CapEx_analyze(Asset.fd)

Clears(f) ==
    LET r == RawSignal(f)
    IN r.present
       /\ CASE f = "ichimoku" ->
                 IF perfect_only
                 THEN r.price_above_cloud /\ r.tenkan_above_kijun /\ r.chikou_above_price
                 ELSE r.score >= min_score
            [] f \in {"bollinger", "ma_alignment"} -> r.score >= 40
            [] f = "cup_handle" -> r.cup_detected /\ r.score >= 40
            [] f \in {"roe", "gpm", "debt"} -> r.score >= 15
            [] f = "capex" -> r.score >= 10

Requested == filters \cap KNOWN_FILTERS
TRIO == {"bollinger", "ma_alignment", "cup_handle"}
ClearedOf(S) == {f \in S \cap filters : Clears(f)}
RawScore(f) == IF f \in filters THEN ScoreOr0(RawSignal(f)) ELSE 0
TrioRawSum == RawScore("bollinger") + RawScore("ma_alignment") + RawScore("cup_handle")
FundamentalRawSum == RawScore("roe") + RawScore("gpm") + RawScore("debt") + RawScore("capex")
Range(seq) == {seq[i] : i \in 1..Len(seq)}

\* C1: with the same asset, filter list, min_score and perfect_only, an asset
\* kept under combine_mode "all" is also kept under combine_mode "any".
C1_AllSubsetOfAny ==
    (Kept /\ combine_mode = "all") =>
        Len(run_screening(market, min_score, perfect_only, limit, filters, "any",
                          us_stocks, kr_stocks).signals) = 1

C4_TrioBonusByCount ==
    Kept =>
      LET k == Cardinality(ClearedOf(TRIO))
      IN KeptSignal.bonus_score = (IF k >= 2 THEN 10 * (k - 1) ELSE 0)

\* C5: with perfect-only off, no signal of the ranked list or of a tier has a
\* score below min_score.
C5_NoneBelowMinScore ==
    (Done /\ ~perfect_only) =>
        \A s \in Range(signals) \cup Range(strong_buy) \cup Range(buy) \cup Range(weak_buy) :
            s.score >= min_score

\* C6: under "any" the asset is kept iff at least one requested analyzer
\* clears its pass threshold, under "all" iff every requested analyzer does.
C6_KeptIffCleared ==
    Done =>
        (Kept <=> IF combine_mode = "any"
                  THEN \E f \in Requested : Clears(f)
                  ELSE \A f \in Requested : Clears(f))

PatternName(f) ==
    CASE f = "ichimoku" -> "ichimoku"
      [] f = "bollinger" -> "bollinger_squeeze"
      [] f = "ma_alignment" -> "ma_alignment"
      [] f = "cup_handle" -> "cup_handle"
      [] f = "roe" -> "roe_excellence"
      [] f = "gpm" -> "gpm_excellence"
      [] f = "debt" -> "low_debt"
      [] f = "capex" -> "capital_efficient"

ListedOnce(seq) == \A i, j \in 1..Len(seq) : seq[i] = seq[j] => i = j

FundamentalAnswered == Asset.fd.valid /\ filters \cap FUNDAMENTAL_FILTERS # {}

FundamentalBonusOf(count) == IF count >= 2 THEN 5 * (count - 1) ELSE 0

TechnicalBonusCarried ==
    LET k == Cardinality(ClearedOf(TRIO))
    IN IF "ichimoku" \in filters /\ RawSignal("ichimoku").present
       THEN (IF k >= 2 THEN 10 * (k - 1) ELSE 0)
       ELSE IF filters \cap TRIO # {} /\ Asset.df.len >= 30
       THEN (IF "bollinger" \in ClearedOf(TRIO) THEN 15 ELSE 0)
            + (IF "ma_alignment" \in ClearedOf(TRIO) THEN 15 ELSE 0)
            + (IF "cup_handle" \in ClearedOf(TRIO) THEN 20 ELSE 0)
       ELSE 0

Universe_all == us_stocks \o kr_stocks
Scanned ==
    CASE market = "US" -> us_stocks
      [] market = "KR" -> kr_stocks
      [] OTHER -> Universe_all

\* C2: an exception raised while analyzing one ticker never leaves a batch
\* entry point, and the results of the other tickers are still returned.
C2_BatchNeverAborts ==
    /\ op # "init" => ~raised
    /\ op = "run_screening" =>
         \A i \in 1..Len(Scanned) :
            analyze_one(Scanned[i], "US", filters, combine_mode, min_score,
                        perfect_only).present
              => \E s \in Range(signals) : s.ticker = Scanned[i].ticker
    /\ op = "technical_batch" =>
         \A i \in 1..Len(Universe_all) :
            LET r == Technical_analyze_stock(Universe_all[i].df, filters)
            IN r.present => r \in Range(signals)
    /\ op = "fundamental_batch" =>
         \A i \in 1..Len(Universe_all) :
            LET r == Fundamental_analyze_stock_by_ticker(Universe_all[i].fd, filters)
            IN r.present => r \in Range(signals)

NonIncreasing(seq) == \A i \in 1..(Len(seq) - 1) : seq[i].score >= seq[i + 1].score

\* C8: a signal of the top tier has score >= 80, of the mid tier a score in
\* [50, 80), of the low tier a score in [20, 50); no signal is in two tiers;
\* the ranked list and each tier are in non-increasing score order.
C8_TiersFollowScore ==
    Done =>
        /\ \A s \in Range(strong_buy) : s.score >= 80
        /\ \A s \in Range(buy) : s.score >= 50 /\ s.score < 80
        /\ \A s \in Range(weak_buy) : s.score >= 20 /\ s.score < 50
        /\ Range(strong_buy) \cap Range(buy) = {}
        /\ Range(strong_buy) \cap Range(weak_buy) = {}
        /\ Range(buy) \cap Range(weak_buy) = {}
        /\ NonIncreasing(signals)
        /\ NonIncreasing(strong_buy) /\ NonIncreasing(buy) /\ NonIncreasing(weak_buy)

\* both markets scanned, three tickers kept in universe order low, mid, top:
\* the ranked list is reordered and each tier receives one signal
C8_Witness ==
    /\ Done /\ ~raised
    /\ market = "ALL" /\ Len(us_stocks) = 2 /\ Len(kr_stocks) = 1
    /\ Len(signals) = 3
    /\ signals[1].ticker = 3 /\ signals[3].ticker = 1
    /\ Len(strong_buy) = 1 /\ Len(buy) = 1 /\ Len(weak_buy) = 1
    /\ weak_buy[1].score = 35

\* C29: the ranked list a scan returns is the same for every completion order
\* of the worker-pool tasks that fetch the universe: the same signals in the
\* same order, equal scores included, and the same members in every tier.
C29_SameForEveryCompletionOrder ==
    (Done /\ ~raised) =>
        \A us_order \in CompletionOrders(Len(us_stocks)),
           kr_order \in CompletionOrders(Len(kr_stocks)) :
            LET r == run_screening(market, min_score, perfect_only, limit, filters,
                                   combine_mode,
                                   get_filtered_stocks(us_stocks, us_order),
                                   get_filtered_stocks(kr_stocks, kr_order))
            IN /\ r.signals = signals
               /\ r.strong_buy = strong_buy /\ r.buy = buy /\ r.weak_buy = weak_buy

\* C30: in run_screening each tier is complete up to its limit: a signal of
\* the ranked list whose score lies in a tier's range is missing from the tier
\* only if the tier already holds limit signals with scores at least as high;
\* a tier is never short of limit while the ranked list holds an unlisted
\* signal of its range.
RankedAtLeast(lo) == {i \in 1..Len(signals) : signals[i].score >= lo}

TierComplete(tier, in_range) ==
    /\ \A i \in in_range :
          signals[i] \notin Range(tier) =>
              /\ Len(tier) = limit
              /\ \A t \in Range(tier) : t.score >= signals[i].score
    /\ Len(tier) < limit => \A i \in in_range : signals[i] \in Range(tier)

C30_TiersCompleteUpToLimit ==
    (Done /\ ~raised) =>
        /\ TierComplete(strong_buy, RankedAtLeast(TIER_STRONG_BUY))
        /\ TierComplete(buy, RankedAtLeast(TIER_BUY) \ RankedAtLeast(TIER_STRONG_BUY))
        /\ TierComplete(weak_buy, RankedAtLeast(TIER_WEAK_BUY) \ RankedAtLeast(TIER_BUY))

====
